---------------------------- MODULE Spec2Model ----------------------------
(***************************************************************************)
(* A model of the pagination code of rustboxd: Films::new / scrape_movies  *)
(* (src/src/models/films.rs), Search::new / get_more_results                *)
(* (src/src/models/search.rs) and the page fetcher Client::get_page         *)
(* (src/src/core/client.rs).                                                *)
(*                                                                          *)
(* Text is modelled as a sequence of tokens: "/" is a token of its own and  *)
(* every other token is a word without a slash, so that the prefix and      *)
(* suffix trimming of the slug extraction is computed, not assumed.         *)
(* A document is a record of the fragment sequences each selector finds.    *)
(***************************************************************************)
EXTENDS Integers, Sequences, FiniteSets, TLC

(***************************************************************************)
(* Bounds of the model.                                                     *)
(***************************************************************************)
\* Page numbers are tracked exactly up to MaxPage; the value MaxPage + 1
\* stands for every later page (see NextPage).
MaxPage == 14
\* Number of fragments without a link that a served page may carry.
MaxBad == 3
\* Number of fragments of a served page that repeat the slug of its first one.
MaxDup == 1
\* Largest max_pages argument the caller passes to get_more_results.
MaxPagesArg == 3
\* Number of get_more_results calls the caller makes on one Search value.
MaxCalls == 2
\* Largest number of film fragments on a served search page.
MaxSearchFilms == 2

(***************************************************************************)
(* Constants of the program.                                                *)
(***************************************************************************)
VERTICAL_MAX == 100
HORIZONTAL_MAX == 72
CEILING == 1000

\* Option<T>: None is the empty sequence, Some(v) the sequence of v alone.
None == <<>>
Some(v) == <<v>>
Unwrap(o) == o[1]

DOMAIN_URL == <<"https://letterboxd.com">>

SEARCH_FILTERS ==
    {"films", "reviews", "lists", "original-lists", "stories", "cast-crew",
     "members", "tags", "articles", "episodes", "full-text"}

(***************************************************************************)
(* Result<T>                                                                *)
(***************************************************************************)
Ok(v) == [ok |-> TRUE, val |-> v]
Err(e) == [ok |-> FALSE, err |-> e]

ParseError(msg) == [kind |-> "Parse", message |-> msg]
PageLoad(u, msg) == [kind |-> "PageLoad", url |-> u, message |-> msg]
PrivateRoute == [kind |-> "PrivateRoute"]

(***************************************************************************)
(* Text helpers: str::trim_start_matches, str::trim_end_matches.            *)
(***************************************************************************)
IsPrefix(p, s) == Len(p) <= Len(s) /\ SubSeq(s, 1, Len(p)) = p
IsSuffix(p, s) == Len(p) <= Len(s) /\ SubSeq(s, Len(s) - Len(p) + 1, Len(s)) = p

RECURSIVE TrimStartMatches(_, _)
TrimStartMatches(s, p) ==
    IF Len(p) > 0 /\ IsPrefix(p, s)
    THEN TrimStartMatches(SubSeq(s, Len(p) + 1, Len(s)), p)
    ELSE s

RECURSIVE TrimEndMatches(_, _)
TrimEndMatches(s, p) ==
    IF Len(p) > 0 /\ IsSuffix(p, s)
    THEN TrimEndMatches(SubSeq(s, 1, Len(s) - Len(p)), p)
    ELSE s

FILM_PREFIX == <<"/", "film", "/">>
SLASH == <<"/">>

\* A slug from which only the prefix is taken off.
SlugOfHref_KeepEnd(href) == TrimStartMatches(href, FILM_PREFIX)

\* href.trim_start_matches("/film/").trim_end_matches("/")
SlugOfHref(href) == TrimEndMatches(TrimStartMatches(href, FILM_PREFIX), SLASH)

\* str::contains("/film/")
HasFilmMarker(href) ==
    \E i \in 1..(Len(href) - Len(FILM_PREFIX) + 1) :
        SubSeq(href, i, i + Len(FILM_PREFIX) - 1) = FILM_PREFIX

\* parser.rs 174-185: the text after the first "/film/", up to the next "/".
extract_film_slug(u) ==
    IF ~HasFilmMarker(u) THEN None
    ELSE LET at == CHOOSE i \in 1..(Len(u) - Len(FILM_PREFIX) + 1) :
                      /\ SubSeq(u, i, i + Len(FILM_PREFIX) - 1) = FILM_PREFIX
                      /\ \A j \in 1..(i - 1) :
                            SubSeq(u, j, j + Len(FILM_PREFIX) - 1) # FILM_PREFIX
             rest == SubSeq(u, at + Len(FILM_PREFIX), Len(u))
         IN  IF rest = <<>> \/ rest[1] = "/" THEN None ELSE Some(<<rest[1]>>)

\* el.inner_html().parse().ok(): the text of a year element either is the
\* decimal form of a number or is some other text.
NumberText(n) == [digits |-> TRUE, value |-> n]
OtherText == [digits |-> FALSE]
ParseYear(text) == IF text.digits THEN Some(text.value) ELSE None

(***************************************************************************)
(* The page fetcher.  A response is what the network gives back for one     *)
(* request: whether send() succeeded, the status, whether text() succeeded, *)
(* and the document of the body.                                            *)
(***************************************************************************)
\* A status match without its arm for 403.
check_response_errors_NoForbidden(u, resp) ==
    CASE resp.status = 200 -> Ok(None)
      [] resp.status = 404 -> Err(PageLoad(u, <<"Page not found">>))
      [] OTHER -> Err(PageLoad(u, <<"HTTP", ToString(resp.status)>>))

check_response_errors(u, resp) ==
    CASE resp.status = 200 -> Ok(None)
      [] resp.status = 404 -> Err(PageLoad(u, <<"Page not found">>))
      [] resp.status = 403 -> Err(PrivateRoute)
      [] OTHER -> Err(PageLoad(u, <<"HTTP", ToString(resp.status)>>))

get_page(u, resp) ==
    IF ~resp.send THEN Err(PageLoad(u, <<"send">>))
    ELSE IF ~check_response_errors(u, resp).ok THEN check_response_errors(u, resp)
    ELSE IF ~resp.text THEN Err(PageLoad(u, <<"text">>))
    ELSE Ok(resp.body)

(***************************************************************************)
(* URLs.  A URL is the site's domain followed by path segments, each        *)
(* followed by "/" except that the last one is followed by "/" only when    *)
(* slash is TRUE: [segs |-> <<"u", "films">>, slash |-> TRUE] is            *)
(* https://letterboxd.com/u/films/.  No URL of the model repeats a segment. *)
(***************************************************************************)
\* str::contains("/<word>/")
Contains(u, word) ==
    \E i \in 1..Len(u.segs) : u.segs[i] = word /\ (i < Len(u.segs) \/ u.slash)

\* str::replace("/<word>/", "/ajax/<word>/")
RECURSIVE InsertAjax(_, _, _, _)
InsertAjax(segs, slash, word, i) ==
    IF i > Len(segs) THEN <<>>
    ELSE (IF segs[i] = word /\ (i < Len(segs) \/ slash)
          THEN <<"ajax", segs[i]>> ELSE <<segs[i]>>)
         \o InsertAjax(segs, slash, word, i + 1)

get_ajax_url(u) ==
    IF Contains(u, "films")
    THEN [segs |-> InsertAjax(u.segs, u.slash, "films", 1), slash |-> u.slash]
    ELSE IF Contains(u, "film")
    THEN [segs |-> InsertAjax(u.segs, u.slash, "film", 1), slash |-> u.slash]
    ELSE [segs |-> u.segs \o (IF u.slash THEN <<"">> ELSE <<>>) \o <<"ajax">>,
          slash |-> FALSE]

\* The URL of a request: base itself, or format!("{}/page/{}", base, page).
PlainUrl(base) == [base |-> base, page |-> None]
PageUrl(base, p) == [base |-> base, page |-> Some(p)]

\* urlencoding::encode on a text whose tokens are words and spaces.
UrlEncode(q) == [i \in DOMAIN q |-> IF q[i] = " " THEN "%20" ELSE q[i]]

(***************************************************************************)
(* Fragments.  A fragment is one element a selector found, described by    *)
(* what the extractors look up in it:                                       *)
(*   img  : the image element (None when absent) with its alt and src,      *)
(*   link : the link element (None when absent) with its href and text,     *)
(*   year : the text of the year element (None when absent).                *)
(* All of them and the attributes are options.                             *)
(***************************************************************************)
FilmEntry(title, year, slug, u, poster) ==
    [title |-> title, year |-> year, slug |-> slug, url |-> u, poster |-> poster,
     rating |-> None, director |-> None,
     watched |-> FALSE, liked |-> FALSE, in_watchlist |-> FALSE]

\* films.rs 129-139: the lookups that end parse_horizontal_film with an
\* error; None when every one of them succeeds.
HorizontalMissing(e) ==
    IF e.img = None THEN Some("Film image not found")
    ELSE IF e.link = None THEN Some("Film link not found")
    ELSE IF Unwrap(e.img).alt = None THEN Some("Film title not found")
    ELSE IF Unwrap(e.link).href = None THEN Some("Film href not found")
    ELSE None

parse_horizontal_film(e) ==
    IF HorizontalMissing(e) # None THEN Err(ParseError(Unwrap(HorizontalMissing(e))))
    ELSE LET title == Unwrap(Unwrap(e.img).alt)
             href == Unwrap(Unwrap(e.link).href)
         IN  Ok(FilmEntry(title, None, SlugOfHref(href), DOMAIN_URL \o href,
                          Unwrap(e.img).src))

\* films.rs 167-172: the lookups that end parse_vertical_film with an error.
VerticalMissing(e) ==
    IF e.link = None THEN Some("Film title not found")
    ELSE IF Unwrap(e.link).href = None THEN Some("Film URL not found")
    ELSE None

parse_vertical_film(e) ==
    IF VerticalMissing(e) # None THEN Err(ParseError(Unwrap(VerticalMissing(e))))
    ELSE LET title == Unwrap(e.link).text
             href == Unwrap(Unwrap(e.link).href)
         IN  Ok(FilmEntry(title,
                          IF e.year = None THEN None ELSE ParseYear(Unwrap(e.year)),
                          SlugOfHref(href), DOMAIN_URL \o href,
                          IF e.img = None THEN None ELSE Unwrap(e.img).src))

(***************************************************************************)
(* HashMap<String, FilmEntry> as a function from slugs to entries.          *)
(***************************************************************************)
EmptyMap == [s \in {} |-> None]
HashMapLen(m) == Cardinality(DOMAIN m)
\* f @@ g is the function on DOMAIN f \cup DOMAIN g that agrees with f where
\* f is defined and with g elsewhere: an insertion replaces the old value.
HashMapInsert(m, k, v) == (k :> v) @@ m

\* An extension that keeps only the new entries.
HashMapExtend_Replace(m, n) == n

\* HashMap::extend: every entry of n is inserted into m.
HashMapExtend(m, n) == n @@ m

\* The loop of extract_*_movies over the parse results lo..hi of the
\* fragments: the map that inserting the successfully parsed ones in document
\* order into an empty map gives.  A fragment whose parse failed is skipped,
\* and an insertion replaces an earlier one of the same slug, so the map of a
\* range is the map of its later half laid over the map of its earlier half.
\* A loop in which the first record of a slug stays.
RECURSIVE InsertParsed_KeepFirst(_, _, _)
InsertParsed_KeepFirst(parsed, lo, hi) ==
    IF lo > hi THEN EmptyMap
    ELSE IF lo = hi
    THEN LET r == parsed[lo]
         IN  IF r.ok THEN HashMapInsert(EmptyMap, r.val.slug, r.val) ELSE EmptyMap
    ELSE LET mid == (lo + hi) \div 2
         IN  InsertParsed_KeepFirst(parsed, lo, mid)
                @@ InsertParsed_KeepFirst(parsed, mid + 1, hi)

RECURSIVE InsertParsed(_, _, _)
InsertParsed(parsed, lo, hi) ==
    IF lo > hi THEN EmptyMap
    ELSE IF lo = hi
    THEN LET r == parsed[lo]
         IN  IF r.ok THEN HashMapInsert(EmptyMap, r.val.slug, r.val) ELSE EmptyMap
    ELSE LET mid == (lo + hi) \div 2
         IN  InsertParsed(parsed, mid + 1, hi) @@ InsertParsed(parsed, lo, mid)

extract_horizontal_movies(dom) ==
    Ok(InsertParsed([i \in 1..Len(dom.poster_container) |->
                        parse_horizontal_film(dom.poster_container[i])],
                    1, Len(dom.poster_container)))

extract_vertical_movies(dom) ==
    Ok(InsertParsed([i \in 1..Len(dom.film_detail) |->
                        parse_vertical_film(dom.film_detail[i])],
                    1, Len(dom.film_detail)))

\* A choice of extractor that takes every other URL for a list.
NewMovies_ListOtherwise(original_url, dom) ==
    IF Contains(original_url, "films") THEN extract_horizontal_movies(dom)
    ELSE extract_vertical_movies(dom)

\* films.rs 65-71
NewMovies(original_url, dom) ==
    IF Contains(original_url, "films") THEN extract_horizontal_movies(dom)
    ELSE IF Contains(original_url, "film") THEN extract_vertical_movies(dom)
    ELSE Ok(EmptyMap)

\* films.rs 77-81
MaxPerPage(original_url) ==
    IF Contains(original_url, "films") THEN HORIZONTAL_MAX ELSE VERTICAL_MAX

\* The stop condition without its short-page test.
ShouldBreak_NoShortPage(new_count, max_per_page, total) == total >= CEILING

\* The stop condition without its ceiling test.
ShouldBreak_NoCeiling(new_count, max_per_page, total) == new_count < max_per_page

\* films.rs 83
ShouldBreak(new_count, max_per_page, total) ==
    new_count < max_per_page \/ total >= CEILING

\* A loop that requests the same page again.
NextPage_Same(p) == p

\* films.rs 87: page += 1.  The model follows the page number up to MaxPage;
\* MaxPage + 1 stands for every page after that.  page is an i32: at page
\* 2^31 - 1 the addition wraps in a build without overflow checks, and the
\* loop goes on, and panics in a build with them; neither lets the run return.
NextPage(p) == IF p <= MaxPage THEN p + 1 ELSE p

(***************************************************************************)
(* Search results (search.rs).                                              *)
(***************************************************************************)
SearchFilm(title, year, slug, u, poster) ==
    [title |-> title, year |-> year, slug |-> slug, url |-> u, poster |-> poster,
     rating |-> None, director |-> None]

\* search.rs 186-191: the lookups that end parse_film_result with an error.
FilmResultMissing(e) ==
    IF e.link = None THEN Some("Film title not found")
    ELSE IF Unwrap(e.link).href = None THEN Some("Film URL not found")
    ELSE None

parse_film_result(e) ==
    IF FilmResultMissing(e) # None THEN Err(ParseError(Unwrap(FilmResultMissing(e))))
    ELSE LET title == Unwrap(e.link).text
             href == Unwrap(Unwrap(e.link).href)
         IN  Ok(SearchFilm(title,
                           IF e.year = None THEN None ELSE ParseYear(Unwrap(e.year)),
                           SlugOfHref(href), DOMAIN_URL \o href,
                           IF e.img = None THEN None ELSE Unwrap(e.img).src))

parse_review_result(e) == Err(ParseError("Review parsing not implemented"))
parse_list_result(e) == Err(ParseError("List parsing not implemented"))
parse_member_result(e) == Err(ParseError("Member parsing not implemented"))

\* A loop that ends at the first element whose parse fails.
RECURSIVE PushParsed_UntilError(_)
PushParsed_UntilError(parsed) ==
    IF parsed = <<>> \/ ~Head(parsed).ok THEN <<>>
    ELSE <<Head(parsed).val>> \o PushParsed_UntilError(Tail(parsed))

\* `for element in ... { if let Ok(x) = parse(&element) { v.push(x) } }`
\* over the parse results of the elements, in document order.
PushParsed(parsed) ==
    LET good == SelectSeq(parsed, LAMBDA r : r.ok)
    IN  [i \in DOMAIN good |-> good[i].val]

EmptyResults ==
    [films |-> <<>>, reviews |-> <<>>, lists |-> <<>>, members |-> <<>>,
     cast_crew |-> <<>>, tags |-> <<>>, stories |-> <<>>, articles |-> <<>>]

ResultLists == DOMAIN EmptyResults

parse_search_results(dom, search_filter) ==
    Ok(IF search_filter = Some("films") \/ search_filter = None
       THEN [EmptyResults EXCEPT !.films = 
            PushParsed([i \in DOMAIN dom.film_detail |-> parse_film_result(dom.film_detail[i])])]
       ELSE IF search_filter = Some("reviews")
       THEN [EmptyResults EXCEPT !.reviews = 
            PushParsed([i \in DOMAIN dom.review |-> parse_review_result(dom.review[i])])]
       ELSE IF search_filter = Some("lists")
       THEN [EmptyResults EXCEPT !.lists = 
            PushParsed([i \in DOMAIN dom.list_item |-> parse_list_result(dom.list_item[i])])]
       ELSE IF search_filter = Some("members")
       THEN [EmptyResults EXCEPT !.members = 
            PushParsed([i \in DOMAIN dom.person_summary |-> parse_member_result(dom.person_summary[i])])]
       ELSE EmptyResults)

\* A merge that puts the records of the page in front.
ExtendResults_Prepend(results, page_results) ==
    [f \in ResultLists |-> page_results[f] \o results[f]]

\* search.rs 240-247: Vec::extend of every result list.
ExtendResults(results, page_results) ==
    [f \in ResultLists |-> results[f] \o page_results[f]]

\* search.rs 109-113
SearchUrl(query, search_filter) ==
    IF search_filter # None
    THEN [segs |-> <<"s", "search", Unwrap(search_filter)>> \o UrlEncode(query), slash |-> FALSE]
    ELSE [segs |-> <<"s", "search">> \o UrlEncode(query), slash |-> FALSE]

\* search.rs 232: `for page in 2..=max_pages` starts at page 2 and runs its
\* body while the page is at most max_pages.
FIRST_MORE_PAGE == 2
\* A loop that runs two pages further.
InRange_TwoMore(p, max_pages) == p <= max_pages + 2
InRange(p, max_pages) == p <= max_pages

(***************************************************************************)
(* Numbers in text (parser.rs, list.rs).  A text is the sequence of its     *)
(* characters.  The characters of the model's texts are digits, ".", ",",   *)
(* " ", letters and punctuation: a sign, an exponent, "inf" and "nan",     *)
(* which str::parse::<f32> also reads, are not among them.                  *)
(*                                                                          *)
(* An f32 that is not zero is [m, e] with 2^23 <= m < 2^24, of value        *)
(* m * 2^e; zero is [m |-> 0, e |-> 0].  A u32 is kept as its 32 bits read  *)
(* as a signed number: itself below 2^31, itself less 2^32 from there on.   *)
(***************************************************************************)
IsDigit(c) == \E n \in 0..9 : ToString(n) = c
DigitValue(c) == CHOOSE n \in 0..9 : ToString(n) = c
IsDigits(s) == \A i \in DOMAIN s : IsDigit(s[i])

RECURSIVE Pow(_, _)
Pow(b, n) == IF n = 0 THEN 1 ELSE b * Pow(b, n - 1)

\* The number a sequence of digits denotes (0 for the empty one).
RECURSIVE Decimal(_)
Decimal(s) ==
    IF s = <<>> THEN 0
    ELSE Decimal(SubSeq(s, 1, Len(s) - 1)) * 10 + DigitValue(s[Len(s)])

\* str::replace(c, "")
Remove(s, c) == SelectSeq(s, LAMBDA x : x # c)

\* str::trim, for the one whitespace character of the model's texts.
Trim(s) == TrimEndMatches(TrimStartMatches(s, <<" ">>), <<" ">>)

\* str::parse::<u32>().ok(): digits after at most one "+".  The texts of the model have fewer
\* than ten characters, so that no number of theirs is beyond the type.
ParseDigits(s) == IF s # <<>> /\ IsDigits(s) THEN Some(Decimal(s)) ELSE None
parse_u32(s) ==
    IF s # <<>> /\ Head(s) = "+" THEN ParseDigits(Tail(s)) ELSE ParseDigits(s)

MANTISSA_BITS == 24
F32Zero == [m |-> 0, e |-> 0]

\* Rounding to nearest, ties to even: the mantissa m is followed by the
\* fraction rem / unit of its last place.
RoundEven(m, e, rem, unit) ==
    LET up == 2 * rem > unit \/ (2 * rem = unit /\ m % 2 = 1)
        r == IF up THEN m + 1 ELSE m
    IN  IF r = Pow(2, MANTISSA_BITS) THEN [m |-> r \div 2, e |-> e + 1]
        ELSE [m |-> r, e |-> e]

\* The f32 nearest to (m + r / d) * 2^e, for 0 < m + r / d, m < 2^24, r < d:
\* binary digits of r / d are taken until the mantissa has its 24 bits.
RECURSIVE F32Of(_, _, _, _)
F32Of(m, r, d, e) ==
    IF m >= Pow(2, MANTISSA_BITS - 1) THEN RoundEven(m, e, r, d)
    ELSE F32Of(2 * m + (IF 2 * r >= d THEN 1 ELSE 0),
               IF 2 * r >= d THEN 2 * r - d ELSE 2 * r, d, e - 1)

\* str::parse::<f32>().ok() on digits with at most one ".", and at least
\* one digit, before or after it.
parse_f32(s) ==
    LET dots == { i \in DOMAIN s : s[i] = "." }
        digits == Remove(s, ".")
    IN  IF Cardinality(dots) > 1 \/ digits = <<>> \/ ~IsDigits(digits) THEN None
        ELSE LET scale == IF dots = {} THEN 1
                          ELSE Pow(10, Len(s) - (CHOOSE i \in dots : TRUE))
                 n == Decimal(digits)
             IN  IF n = 0 THEN Some(F32Zero)
                 ELSE Some(F32Of(n \div scale, n % scale, scale, 0))

SPLIT == 4096

\* The number of binary digits of n > 0.
RECURSIVE Bits(_)
Bits(n) == IF n = 0 THEN 0 ELSE 1 + Bits(n \div 2)

\* The f32 product of x and the f32 number k * 2^sh, k < 2^14: the product
\* of the mantissas, taken in two halves, is rounded once.
MulF32(x, k, sh) ==
    IF x.m = 0 THEN F32Zero
    ELSE LET a == (x.m \div SPLIT) * k
             b == (x.m % SPLIT) * k
             q == a + b \div SPLIT
             r == b % SPLIT
             s == Bits(q) - 12
         IN  IF s >= 12
             THEN RoundEven(q \div Pow(2, s - 12), x.e + sh + s,
                            (q % Pow(2, s - 12)) * SPLIT + r, Pow(2, s))
             ELSE RoundEven(q * Pow(2, 12 - s) + r \div Pow(2, s), x.e + sh + s,
                            r % Pow(2, s), Pow(2, s))

U32_MAX == -1

\* `x as u32` of an f32 that is not negative: the fraction is dropped and a
\* number beyond the type becomes u32::MAX.
AsU32(x) ==
    IF x.m = 0 THEN 0
    ELSE IF x.e > 8 THEN U32_MAX
    ELSE IF x.e = 8
    THEN (x.m - Pow(2, MANTISSA_BITS - 1)) * Pow(2, 8) + (-2147483647 - 1)
    ELSE IF x.e >= 0 THEN x.m * Pow(2, x.e)
    ELSE IF x.e <= -MANTISSA_BITS THEN 0
    ELSE x.m \div Pow(2, -x.e)

THOUSAND == [k |-> 125, sh |-> 3]
MILLION == [k |-> 15625, sh |-> 6]

Times(s, by) == AsU32(MulF32(Unwrap(parse_f32(s)), by.k, by.sh))

\* parser.rs 10-26
extract_and_convert_shorthand(text) ==
    LET cleaned == Remove(Trim(text), ",")
    IN  IF "K" \in { cleaned[i] : i \in DOMAIN cleaned }
        THEN IF parse_f32(Remove(cleaned, "K")) # None
             THEN Times(Remove(cleaned, "K"), THOUSAND) ELSE 0
        ELSE IF "M" \in { cleaned[i] : i \in DOMAIN cleaned }
        THEN IF parse_f32(Remove(cleaned, "M")) # None
             THEN Times(Remove(cleaned, "M"), MILLION) ELSE 0
        ELSE IF parse_u32(cleaned) # None THEN Unwrap(parse_u32(cleaned))
        ELSE 0

(***************************************************************************)
(* Lists (list.rs).  A list page is a record of what the selectors of      *)
(* parse_list_data find: list_title and list_description (options),        *)
(* list_stats and list_tags (sequences of texts) and poster_list (the      *)
(* sequence of film fragments).  A film fragment of a list carries poster: *)
(* the .poster element (None when absent) with the img and the link in it. *)
(***************************************************************************)
\* str::parse::<u32>().ok() on the text of a number (NumberText; a text of
\* digits too long for the type is an OtherText): a negative one is refused.
ParseU32(text) ==
    IF text.digits /\ text.value >= 0 THEN Some(text.value) ELSE None

\* list.rs 162-174
parse_count_text(text) ==
    LET cleaned == Remove(text, ",")
    IN  IF IsSuffix(<<"K">>, cleaned)
        THEN IF parse_f32(TrimEndMatches(cleaned, <<"K">>)) # None
             THEN Some(Times(TrimEndMatches(cleaned, <<"K">>), THOUSAND)) ELSE None
        ELSE parse_u32(cleaned)

\* Option::unwrap_or
UnwrapOr(o, default) == IF o = None THEN default ELSE Unwrap(o)

\* slice::get: the element of index i (from 0), None beyond the end.
Get(seq, i) == IF i + 1 <= Len(seq) THEN Some(seq[i + 1]) ELSE None

ListFilm(title, slug, u, poster, position) ==
    [title |-> title, year |-> None, slug |-> slug, url |-> u, poster |-> poster,
     director |-> None, position |-> Some(position), notes |-> None]

\* list.rs 130-143: the lookups that end parse_list_film with an error.
ListFilmMissing(e) ==
    IF e.poster = None THEN Some("Poster element not found")
    ELSE IF Unwrap(e.poster).img = None THEN Some("Image element not found")
    ELSE IF Unwrap(e.poster).link = None THEN Some("Link element not found")
    ELSE IF Unwrap(Unwrap(e.poster).img).alt = None THEN Some("Film title not found")
    ELSE IF Unwrap(Unwrap(e.poster).link).href = None THEN Some("Film href not found")
    ELSE None

parse_list_film(e, position) ==
    IF ListFilmMissing(e) # None THEN Err(ParseError(Unwrap(ListFilmMissing(e))))
    ELSE LET img == Unwrap(Unwrap(e.poster).img)
             href == Unwrap(Unwrap(Unwrap(e.poster).link).href)
         IN  Ok(ListFilm(Unwrap(img.alt), SlugOfHref(href), DOMAIN_URL \o href,
                         img.src, position))

\* A numbering from 0.
Position_FromZero(index) == index

\* list.rs 96: index as u32 + 1, of the index enumerate() gives (from 0)
Position(index) == index + 1

UNTITLED == "Untitled List"

parse_list_data(dom, author, slug, u) ==
    LET stats == dom.list_stats
        at0 == Get(stats, 0)
        at1 == Get(stats, 1)
        at2 == Get(stats, 2)
    IN  Ok([title |-> UnwrapOr(dom.list_title, UNTITLED),
            description |-> dom.list_description,
            author |-> author, slug |-> slug, url |-> u,
            film_count |-> UnwrapOr(IF at0 = None THEN None ELSE ParseU32(Unwrap(at0)), 0),
            likes |-> UnwrapOr(IF at1 = None THEN None ELSE parse_count_text(Unwrap(at1)), 0),
            comments |-> UnwrapOr(IF at2 = None THEN None ELSE parse_count_text(Unwrap(at2)), 0),
            is_ranked |-> FALSE,
            films |-> PushParsed([i \in DOMAIN dom.poster_list |->
                                     parse_list_film(dom.poster_list[i], Position(i - 1))]),
            tags |-> dom.list_tags,
            created_date |-> None, updated_date |-> None])

\* list.rs 229-231: the first film of the position, if any.
get_film_by_position(films, position) ==
    LET at == { i \in DOMAIN films : films[i].position = Some(position) }
    IN  IF at = {} THEN None
        ELSE Some(films[CHOOSE i \in at : \A j \in at : i <= j])

\* list.rs 49-55: url.split('/') of "https://letterboxd.com/<segs>" gives
\* "https:", "", "letterboxd.com", the segments, and a last empty part when
\* the URL ends with "/".
SplitSlash(u) ==
    <<"https:", "", "letterboxd.com">> \o u.segs \o (IF u.slash THEN <<"">> ELSE <<>>)

MIN_URL_PARTS == 6
AUTHOR_PART == 3
SLUG_PART == 5

(***************************************************************************)
(* Diary rows (user_diary.rs).  A row carries link: the film link (None    *)
(* when absent) with its href and text, and date: the date link (None when *)
(* absent) with data_date, the parts of the attribute between "-" (None    *)
(* when the attribute is absent).                                          *)
(***************************************************************************)
DEFAULT_MONTH == 1
DEFAULT_DAY == 1
DATE_PARTS == 3

DiaryMovieEntry(name, slug, month, day) ==
    [name |-> name, slug |-> slug, title |-> name, year |-> None, director |-> None,
     genres |-> <<>>, runtime |-> None, rating |-> None, description |-> None,
     month |-> month, day |-> day]

\* user_diary.rs 85-101
DiaryDate(row) ==
    IF row.date = None THEN <<DEFAULT_MONTH, DEFAULT_DAY>>
    ELSE IF Unwrap(row.date).data_date = None THEN <<DEFAULT_MONTH, DEFAULT_DAY>>
    ELSE LET parts == Unwrap(Unwrap(row.date).data_date)
         IN  IF Len(parts) >= DATE_PARTS
             THEN <<UnwrapOr(ParseU32(parts[2]), DEFAULT_MONTH),
                    UnwrapOr(ParseU32(parts[3]), DEFAULT_DAY)>>
             ELSE <<DEFAULT_MONTH, DEFAULT_DAY>>

\* user_diary.rs 78-120: the rows with a film link give one entry each, in
\* document order; the others give none.
RECURSIVE DiaryEntries(_)
DiaryEntries(rows) ==
    IF rows = <<>> THEN <<>>
    ELSE LET row == Head(rows)
         IN  (IF row.link = None THEN <<>>
              ELSE LET href == UnwrapOr(Unwrap(row.link).href, <<>>)
                   IN  <<DiaryMovieEntry(Unwrap(row.link).text, SlugOfHref(href),
                                         DiaryDate(row)[1], DiaryDate(row)[2])>>)
             \o DiaryEntries(Tail(rows))

(***************************************************************************)
(* Usernames (user.rs).  A username is a sequence of characters.           *)
(***************************************************************************)
UPPER ==
    <<"A", "B", "C", "D", "E", "F", "G", "H", "I", "J", "K", "L", "M",
      "N", "O", "P", "Q", "R", "S", "T", "U", "V", "W", "X", "Y", "Z">>
LOWER ==
    <<"a", "b", "c", "d", "e", "f", "g", "h", "i", "j", "k", "l", "m",
      "n", "o", "p", "q", "r", "s", "t", "u", "v", "w", "x", "y", "z">>
DIGITS == <<"0", "1", "2", "3", "4", "5", "6", "7", "8", "9">>

Range(seq) == {seq[i] : i \in DOMAIN seq}

\* The character class [A-Za-z0-9_]
WordChars == Range(UPPER) \cup Range(LOWER) \cup Range(DIGITS) \cup {"_"}

\* Regex::new(r"^[A-Za-z0-9_]*$").is_match(username)
username_regex_is_match(username) ==
    \A i \in DOMAIN username : username[i] \in WordChars

\* str::to_lowercase on the characters of the model
ToLowercase(text) ==
    [i \in DOMAIN text |->
        IF text[i] \in Range(UPPER)
        THEN LOWER[CHOOSE j \in DOMAIN UPPER : UPPER[j] = text[i]]
        ELSE text[i]]

InvalidUsername(username) == [kind |-> "InvalidUsername", username |-> username]

\* user.rs 87: format!("{}/user/{}", DOMAIN, username)
UserUrl(username) == [segs |-> <<"user", username>>, slash |-> FALSE]

ZeroStats ==
    [films |-> 0, this_year |-> 0, following |-> 0, followers |-> 0, lists |-> 0,
     reviews |-> 0, diary_entries |-> 0]

parse_user_data(dom, username, u) ==
    Ok([username |-> username, url |-> u, id |-> None, is_hq |-> FALSE,
        display_name |-> UnwrapOr(dom.display_name, username),
        bio |-> dom.bio, location |-> dom.location, website |-> dom.website,
        watchlist_length |-> None,
        stats |-> IF dom.profile_stats # <<>> THEN Some(ZeroStats) ELSE None,
        favorites |-> None, avatar |-> None,
        recent |-> [watchlist |-> <<>>, diary |-> [months |-> EmptyMap]]])

(***************************************************************************)
(* The derived views of Films (films.rs 200-228).  `order` is the order in *)
(* which HashMap::values visits the entries, a sequence of the keys; a     *)
(* view is the sequence of the keys whose entries it refers to.  A rating  *)
(* is a number of tenths of a star.                                        *)
(***************************************************************************)
\* A filter that also returns the entries whose year is unknown.
filter_by_year_OrUnknown(m, order, year) ==
    SelectSeq(order, LAMBDA k : m[k].year = None \/ m[k].year = Some(year))

filter_by_year(m, order, year) ==
    SelectSeq(order, LAMBDA k : m[k].year = Some(year))

filter_by_rating(m, order, min_rating) ==
    SelectSeq(order, LAMBDA k : IF m[k].rating = None THEN FALSE
                                 ELSE Unwrap(m[k].rating) >= min_rating)

get_watched(m, order) == SelectSeq(order, LAMBDA k : m[k].watched)

get_liked(m, order) == SelectSeq(order, LAMBDA k : m[k].liked)

get_in_watchlist(m, order) == SelectSeq(order, LAMBDA k : m[k].in_watchlist)

(***************************************************************************)
(* Text utilities (parser.rs, validators.rs), on texts as sequences of      *)
(* characters.                                                              *)
(***************************************************************************)
MAX_USERNAME_LEN == 50

\* validators.rs 5-12
is_valid_username(username) ==
    IF username = <<>> \/ Len(username) > MAX_USERNAME_LEN THEN FALSE
    ELSE username_regex_is_match(username)

\* str::split_whitespace, for the one whitespace character of the model.
RECURSIVE SplitWhitespace(_)
SplitWhitespace(s) ==
    IF s = <<>> THEN <<>>
    ELSE IF Head(s) = " " THEN SplitWhitespace(Tail(s))
    ELSE LET stops == { i \in DOMAIN s : s[i] = " " }
             end == IF stops = {} THEN Len(s) + 1
                    ELSE CHOOSE i \in stops : \A j \in stops : i <= j
         IN  <<SubSeq(s, 1, end - 1)>> \o SplitWhitespace(SubSeq(s, end, Len(s)))

\* str::parse::<i32>().ok(): digits after at most one sign.  The texts of
\* the model have fewer than ten digits.
parse_i32(s) ==
    IF s # <<>> /\ Head(s) = "-"
    THEN IF ParseDigits(Tail(s)) = None THEN None
         ELSE Some(0 - Unwrap(ParseDigits(Tail(s))))
    ELSE parse_u32(s)

\* constants.rs 16-19
MONTH_ABBREVIATIONS ==
    << <<"J", "a", "n">>, <<"F", "e", "b">>, <<"M", "a", "r">>, <<"A", "p", "r">>,
       <<"M", "a", "y">>, <<"J", "u", "n">>, <<"J", "u", "l">>, <<"A", "u", "g">>,
       <<"S", "e", "p">>, <<"O", "c", "t">>, <<"N", "o", "v">>, <<"D", "e", "c">> >>

\* str::eq_ignore_ascii_case
EqIgnoreAsciiCase(a, b) == ToLowercase(a) = ToLowercase(b)

\* parser.rs 73-78
month_to_index(month_abbr) ==
    LET at == { i \in DOMAIN MONTH_ABBREVIATIONS :
                  EqIgnoreAsciiCase(MONTH_ABBREVIATIONS[i], month_abbr) }
    IN  IF at = {} THEN None ELSE Some(CHOOSE i \in at : \A j \in at : i <= j)

DATE_WORDS == 3

\* parser.rs 53-70
parse_written_date(written_date_str) ==
    LET parts == SplitWhitespace(written_date_str)
    IN  IF Len(parts) # DATE_WORDS
        THEN Err(ParseError(<<"Invalid written date format", written_date_str>>))
        ELSE IF parse_u32(parts[1]) = None
        THEN Err(ParseError(<<"Invalid day in date", written_date_str>>))
        ELSE IF month_to_index(parts[2]) = None
        THEN Err(ParseError(<<"Invalid month in date", written_date_str>>))
        ELSE IF parse_i32(parts[3]) = None
        THEN Err(ParseError(<<"Invalid year in date", written_date_str>>))
        ELSE Ok([year |-> Unwrap(parse_i32(parts[3])),
                 month |-> Unwrap(month_to_index(parts[2])),
                 day |-> Unwrap(parse_u32(parts[1]))])

\* U+1D400 MATHEMATICAL BOLD CAPITAL A: a character that is alphabetic and
\* uppercase and has no lowercase mapping, so that to_lowercase keeps it.
BOLD_CAPITAL_A == "U+1D400"

\* char::is_alphanumeric and char::is_uppercase on the characters of the model
is_alphanumeric(c) ==
    c \in Range(UPPER) \cup Range(LOWER) \cup Range(DIGITS) \cup {BOLD_CAPITAL_A}
is_uppercase(c) == c \in Range(UPPER) \cup {BOLD_CAPITAL_A}

\* validators.rs 89-102: a run of dashes becomes one dash.
RECURSIVE CollapseDashes(_, _)
CollapseDashes(s, last_was_dash) ==
    IF s = <<>> THEN <<>>
    ELSE IF Head(s) = "-"
    THEN (IF last_was_dash THEN <<>> ELSE <<"-">>) \o CollapseDashes(Tail(s), TRUE)
    ELSE <<Head(s)>> \o CollapseDashes(Tail(s), FALSE)

\* The same without the final trim_matches('-').
sanitize_for_url_NoTrim(input) ==
    LET lower == ToLowercase(input)
        normalized == [i \in DOMAIN lower |->
                          IF is_alphanumeric(lower[i]) THEN lower[i] ELSE "-"]
    IN  CollapseDashes(normalized, FALSE)

\* validators.rs 73-105
sanitize_for_url(input) ==
    LET lower == ToLowercase(input)
        normalized == [i \in DOMAIN lower |->
                          IF is_alphanumeric(lower[i]) THEN lower[i] ELSE "-"]
        result == CollapseDashes(normalized, FALSE)
    IN  TrimEndMatches(TrimStartMatches(result, <<"-">>), <<"-">>)

(***************************************************************************)
(* What the site serves.                                                    *)
(***************************************************************************)
HrefOf(n) == <<"/", "film", "/", ToString(n), "/">>
TitleOf(n, ed) == [film |-> n, edition |-> ed]

\* A fragment with everything the extractors look up, for film n.
WellFormed(n, ed) ==
    [img |-> Some([alt |-> Some(TitleOf(n, ed)), src |-> Some(<<"poster", ToString(n)>>)]),
     link |-> Some([href |-> Some(HrefOf(n)), text |-> TitleOf(n, ed)]),
     year |-> Some(NumberText(1999))]

\* A fragment without its link.
Linkless(n, ed) ==
    [img |-> Some([alt |-> Some(TitleOf(n, ed)), src |-> None]),
     link |-> None,
     year |-> None]

\* n well-formed fragments for the films first .. first+n-1, then bad
\* fragments without a link, then dup fragments that repeat the first film.
ServedFragments(first, n, bad, dup, ed) ==
    [i \in 1..(n + bad + dup) |->
        IF i <= n THEN WellFormed(first + i - 1, ed)
        ELSE IF i <= n + bad THEN Linkless(first + i - 1, ed)
        ELSE WellFormed(first, ed)]

EmptyDoc ==
    [poster_container |-> <<>>, film_detail |-> <<>>, review |-> <<>>,
     list_item |-> <<>>, person_summary |-> <<>>]

GridDoc(frags) == [EmptyDoc EXCEPT !.poster_container = frags]
ListDoc(frags) == [EmptyDoc EXCEPT !.film_detail = frags]

\* The shapes of the pages the site serves: <<n, bad, dup>> for n films
\* followed by bad fragments without a link or by dup repeats of the first
\* film, with n one of 0, 15, full - 1 and full.
PageShapes(full) ==
    { <<n, x[1], x[2]>> : n \in {0, 15, full - 1, full},
                          x \in {<<0, 0>>, <<MaxBad, 0>>, <<0, MaxDup>>} }
    \ { <<0, 0, MaxDup>> }

\* The document the site serves for the next page of a film collection of
\* which `have` films are collected, in the layout of the URL: either the
\* films after the collected ones (edition 0) or, with `again`, once more the
\* films from the first on (edition 1).
FilmDoc(original_url, have, shape, again) ==
    LET frags == ServedFragments(IF again THEN 1 ELSE have + 1,
                                 shape[1], shape[2], shape[3],
                                 IF again THEN 1 ELSE 0)
    IN  IF Contains(original_url, "films") THEN GridDoc(frags) ELSE ListDoc(frags)

\* The document the site serves for page p of a search: n film results, the
\* films (p - 1) * MaxSearchFilms + 1 onwards, followed by bad results
\* without a link, and one review.
SearchDoc(p, n, bad) ==
    [EmptyDoc EXCEPT
        !.film_detail = ServedFragments((p - 1) * MaxSearchFilms + 1, n, bad, 0, 0),
        !.review = <<Linkless(0, 0)>>]

Served(doc) == [send |-> TRUE, status |-> 200, text |-> TRUE, body |-> doc]

Failures ==
    { [send |-> FALSE, status |-> 0, text |-> FALSE, body |-> EmptyDoc],
      [send |-> TRUE, status |-> 404, text |-> TRUE, body |-> EmptyDoc],
      [send |-> TRUE, status |-> 403, text |-> TRUE, body |-> EmptyDoc],
      [send |-> TRUE, status |-> 500, text |-> TRUE, body |-> EmptyDoc],
      [send |-> TRUE, status |-> 200, text |-> FALSE, body |-> EmptyDoc] }

\* The URLs Films::new is called with.
FilmUrls ==
    { [segs |-> <<"u", "films">>, slash |-> TRUE],
      [segs |-> <<"film", "popular">>, slash |-> TRUE],
      [segs |-> <<"u", "watchlist">>, slash |-> TRUE],
      [segs |-> <<"u", "films">>, slash |-> FALSE] }

\* A fragment for film n in edition ed with everything every extractor
\* looks up, or with what `kind` names missing or different:
\*   "nolink", "noimg", "noposter", "noyear", "nodate": the element is absent;
\*   "nohref", "noalt", "noattr": the attribute href, alt, data-date is absent;
\*   "bare": href is "/film/";  "root": href is "/";
\*   "other": href is "/director/<n>/";  "named": href is "/film/film/";
\*   "badyear": the year is not a number;  "shortdate": the date has two
\*   parts;  "baddate": month and day are not numbers.
Frag(kind, n, ed) ==
    LET href == CASE kind = "nohref" -> None
                  [] kind = "bare" -> Some(<<"/", "film", "/">>)
                  [] kind = "root" -> Some(<<"/">>)
                  [] kind = "other" -> Some(<<"/", "director", "/", ToString(n), "/">>)
                  [] kind = "named" -> Some(<<"/", "film", "/", "film", "/">>)
                  [] OTHER -> Some(HrefOf(n))
        img == IF kind = "noimg" THEN None
               ELSE Some([alt |-> IF kind = "noalt" THEN None ELSE Some(TitleOf(n, ed)),
                          src |-> Some(<<"poster", ToString(n)>>)])
        link == IF kind = "nolink" THEN None
                ELSE Some([href |-> href, text |-> TitleOf(n, ed)])
    IN  [img |-> img,
         link |-> link,
         year |-> CASE kind = "noyear" -> None
                    [] kind = "badyear" -> Some(OtherText)
                    [] OTHER -> Some(NumberText(1999)),
         poster |-> IF kind = "noposter" THEN None ELSE Some([img |-> img, link |-> link]),
         date |-> CASE kind = "nodate" -> None
                    [] kind = "noattr" -> Some([data_date |-> None])
                    [] kind = "shortdate" ->
                         Some([data_date |-> Some(<<NumberText(2024), NumberText(3)>>)])
                    [] kind = "baddate" ->
                         Some([data_date |-> Some(<<NumberText(2024), OtherText, OtherText>>)])
                    [] OTHER ->
                         Some([data_date |->
                                 Some(<<NumberText(2024), NumberText(3), NumberText(15)>>)])]

Kinds ==
    {"nolink", "noimg", "noposter", "noyear", "nodate", "nohref", "noalt", "noattr",
     "bare", "root", "other", "named", "badyear", "shortdate", "baddate"}

\* A list page with its title, description, stats, film fragments and tags.
ListPage(title, description, stats, fragments, tags) ==
    [list_title |-> title, list_description |-> description, list_stats |-> stats,
     poster_list |-> fragments, list_tags |-> tags]

\* The list pages the site serves.
ListPages ==
    { ListPage(Some("Top"), Some("about"), <<NumberText(2), <<"3", ",", "4", "0", "0">>, <<"1", ".", "2", "K">>>>,
               <<Frag("ok", 1, 0), Frag("nolink", 2, 0), Frag("ok", 3, 0)>>, <<"noir">>),
      ListPage(None, None, <<>>, <<>>, <<>>) }

\* The URLs List::from_url is called with: of 7, 6, 5 and 4 parts.
ListUrls ==
    { [segs |-> <<"u", "list", "top">>, slash |-> TRUE],
      [segs |-> <<"u", "list", "top">>, slash |-> FALSE],
      [segs |-> <<"u">>, slash |-> TRUE],
      [segs |-> <<"u">>, slash |-> FALSE] }

\* A profile page: what the selectors of parse_user_data find.
ProfilePages ==
    { [display_name |-> Some("Name"), bio |-> Some("bio"), location |-> None,
       website |-> None, profile_stats |-> <<"1", "2">>],
      [display_name |-> None, bio |-> None, location |-> None,
       website |-> None, profile_stats |-> <<>>] }

\* The usernames User::new is called with.
Usernames ==
    { <<"n", "m">>, <<"N", "_", "7">>, <<>>, <<"n", "-", "m">>, <<"n", " ">>,
      [i \in 1..(MAX_USERNAME_LEN + 1) |-> "n"] }

(***************************************************************************)
(* State.                                                                   *)
(***************************************************************************)
VARIABLES
    pc,          \* where the caller's task is
    url,         \* Films::new: url
    ajax_url,    \* Films::new: ajax_url
    page,        \* scrape_movies: page
    movies,      \* scrape_movies: movies, then the field of the returned value
    new_count,   \* scrape_movies: new_count of the last page
    well_formed, \* number of fragments of the last page whose parse succeeded
    count,       \* the field count of the returned value
    films_ret,   \* what Films::new returned (None while it has not): Ok(None)
                 \* stands for Ok(Films { url, ajax_url, movies, count }), whose
                 \* fields are the variables of these names
    requests,    \* the page URLs requested so far, in order
    fetch_result, \* the result of the latest get_page of Films::new (without
                 \* the document; None before the first)
    merged,      \* the page numbers whose records were merged into the
                 \* collection, in order
    served,      \* the slugs of the films on the pages Films::new fetched
    search,      \* the caller's Search value (None while there is none)
    search_ret,  \* what the last call of Search::new or get_more_results
                 \* returned (None while none has returned)
    max_pages,   \* get_more_results: max_pages
    spage,       \* get_more_results: page
    calls,       \* number of get_more_results calls made
    before,      \* the results of the Search value when the current call began
    call_reqs,   \* the page numbers requested by the current call, in order
    call_results, \* for each request of the current call that was answered,
                 \* whether get_page succeeded and the number of records the
                 \* page yielded, in order
    user_ret,    \* what User::new returned (None while it has not)
    list_ret,    \* what List::from_url or parse_list_data returned (None
                 \* while it has not)
    frags,       \* the fragments of the document handed to the extractors
    entries,     \* get_diary_entries: entries
    view,        \* the last derived view taken of `movies` (None while none)
    response,    \* the response handed to get_page (None while none)
    film_slug,   \* the last URL given to extract_film_slug with what it
                 \* returned (None while none)
    found,       \* the last position given to get_film_by_position with what
                 \* it returned (None while none)
    text,        \* the text handed to the text utilities
    shorthand,   \* what extract_and_convert_shorthand returned (None while
                 \* it has not)
    count_text,  \* what parse_count_text returned (None while it has not)
    written_date, \* what parse_written_date returned (None while it has not)
    sanitized,   \* what sanitize_for_url returned for `text` (None while it
                 \* has not)
    resanitized  \* what sanitize_for_url returned for `sanitized` (None
                 \* while it has not)

filmVars == <<url, ajax_url, page, movies, new_count, well_formed, count, films_ret, fetch_result>>
searchVars == <<search, search_ret, max_pages, spage, calls, before, call_reqs, call_results>>
entryVars == <<user_ret, list_ret>>
textVars == <<text, shorthand, count_text, written_date, sanitized, resanitized>>
extractVars == <<frags, entries, view, response, film_slug, found, textVars>>
vars == <<pc, url, ajax_url, page, movies, new_count, well_formed, count, films_ret,
          requests, fetch_result, merged, served, search, search_ret, max_pages, spage, calls,
          before, call_reqs, call_results, user_ret, list_ret, frags, entries, view,
          response, film_slug, found, text, shorthand, count_text, written_date,
          sanitized, resanitized>>

NoUrl == [segs |-> <<>>, slash |-> FALSE]

Init ==
    /\ pc = "idle"
    /\ url = NoUrl
    /\ ajax_url = NoUrl
    /\ page = 0
    /\ movies = EmptyMap
    /\ new_count = 0
    /\ well_formed = 0
    /\ count = 0
    /\ films_ret = None
    /\ requests = <<>>
    /\ fetch_result = None
    /\ merged = <<>>
    /\ served = {}
    /\ search = None
    /\ search_ret = None
    /\ max_pages = 0
    /\ spage = 0
    /\ calls = 0
    /\ before = EmptyResults
    /\ call_reqs = <<>>
    /\ call_results = <<>>
    /\ user_ret = None
    /\ list_ret = None
    /\ frags = <<>>
    /\ entries = <<>>
    /\ view = None
    /\ response = None
    /\ film_slug = None
    /\ found = None
    /\ text = <<>>
    /\ shorthand = None
    /\ count_text = None
    /\ written_date = None
    /\ sanitized = None
    /\ resanitized = None

\* The histories follow the page numbers up to MaxPage.
Record(hist, p, x) == IF p <= MaxPage THEN Append(hist, x) ELSE hist

\* Number of fragments the extractor of the URL's layout parses successfully.
WellFormedCount(original_url, dom) ==
    IF Contains(original_url, "films")
    THEN Cardinality({ i \in 1..Len(dom.poster_container) :
                         HorizontalMissing(dom.poster_container[i]) = None })
    ELSE IF Contains(original_url, "film")
    THEN Cardinality({ i \in 1..Len(dom.film_detail) :
                         VerticalMissing(dom.film_detail[i]) = None })
    ELSE 0

\* The slugs of the fragments of a page that the extractor of the URL's
\* layout parses successfully.
PageSlugs(original_url, dom) ==
    IF Contains(original_url, "films")
    THEN { SlugOfHref(Unwrap(Unwrap(dom.poster_container[i].link).href)) :
             i \in { j \in 1..Len(dom.poster_container) :
                       HorizontalMissing(dom.poster_container[j]) = None } }
    ELSE IF Contains(original_url, "film")
    THEN { SlugOfHref(Unwrap(Unwrap(dom.film_detail[i].link).href)) :
             i \in { j \in 1..Len(dom.film_detail) :
                       VerticalMissing(dom.film_detail[j]) = None } }
    ELSE {}

(***************************************************************************)
(* Films::new                                                               *)
(***************************************************************************)
\* films.rs 28-32 and 54-56: the call up to the first iteration of the loop.
FilmsNew(u) ==
    /\ pc = "idle"
    /\ UNCHANGED <<entryVars, extractVars>>
    /\ pc' = "films_loop"
    /\ url' = u
    /\ ajax_url' = get_ajax_url(u)
    /\ movies' = EmptyMap
    /\ page' = 1
    /\ UNCHANGED <<new_count, well_formed, count, films_ret, requests, fetch_result, merged, served>>
    /\ UNCHANGED searchVars

\* films.rs 62-63: the request of the page; the task waits for the response.
FilmsRequest ==
    /\ pc = "films_loop"
    /\ UNCHANGED <<entryVars, extractVars>>
    /\ pc' = "films_await"
    /\ requests' = Record(requests, page, PageUrl(ajax_url, page))
    /\ UNCHANGED <<filmVars, merged, served, searchVars>>

\* films.rs 63-90 and 33-40: the page arrives; its records are extracted and
\* merged, and the loop either goes on to the next page or ends, upon which
\* Films::new returns Ok(Films { url, ajax_url, movies, count }).
FilmsPageOk(resp) ==
    /\ pc = "films_await"
    /\ UNCHANGED <<entryVars, extractVars>>
    /\ get_page(PageUrl(ajax_url, page), resp).ok
    /\ LET dom == resp.body
           new_movies == NewMovies(url, dom).val
       IN  /\ new_count' = HashMapLen(new_movies)
           /\ movies' = HashMapExtend(movies, new_movies)
           /\ well_formed' = WellFormedCount(url, dom)
    /\ merged' = Record(merged, page, page)
    /\ served' = served \cup PageSlugs(url, resp.body)
    /\ fetch_result' = Some(Ok(None))
    /\ IF ShouldBreak(new_count', MaxPerPage(url), HashMapLen(movies'))
       THEN /\ pc' = "films_done"
            /\ count' = HashMapLen(movies')
            /\ films_ret' = Some(Ok(None))
            /\ page' = page
       ELSE /\ pc' = "films_loop"
            /\ UNCHANGED <<count, films_ret>>
            /\ page' = NextPage(page)
    /\ UNCHANGED <<url, ajax_url, requests, searchVars>>

\* A failed fetch that ends the run with what was collected so far.
FilmsPageErr_Partial(resp) ==
    /\ pc = "films_await"
    /\ UNCHANGED <<entryVars, extractVars>>
    /\ ~get_page(PageUrl(ajax_url, page), resp).ok
    /\ pc' = "films_done"
    /\ films_ret' = Some(Ok(None))
    /\ count' = HashMapLen(movies)
    /\ fetch_result' = Some(get_page(PageUrl(ajax_url, page), resp))
    /\ UNCHANGED <<url, ajax_url, page, movies, new_count, well_formed, requests, merged, served>>
    /\ UNCHANGED searchVars

\* films.rs 63 and 32: get_page fails; the two `?` hand the error to the
\* caller of Films::new and the collected movies are dropped.
FilmsPageErr(resp) ==
    /\ pc = "films_await"
    /\ UNCHANGED <<entryVars, extractVars>>
    /\ ~get_page(PageUrl(ajax_url, page), resp).ok
    /\ pc' = "films_failed"
    /\ films_ret' = Some(Err(get_page(PageUrl(ajax_url, page), resp).err))
    /\ movies' = EmptyMap
    /\ fetch_result' = Some(get_page(PageUrl(ajax_url, page), resp))
    /\ UNCHANGED <<url, ajax_url, page, new_count, well_formed, count, requests, merged, served>>
    /\ UNCHANGED searchVars

FilmsServed(shape, again) == Served(FilmDoc(url, HashMapLen(movies), shape, again))

(***************************************************************************)
(* Search::new and Search::get_more_results                                 *)
(***************************************************************************)
\* The queries and filters Search::new is called with.
Queries == { <<"nolan">>, <<"christopher", " ", "nolan">> }
Filters == { None, Some("films"), Some("reviews"), Some("tags"), Some("bogus") }

TotalLen(results) ==
    Len(results.films) + Len(results.reviews) + Len(results.lists)
    + Len(results.members) + Len(results.cast_crew) + Len(results.tags)
    + Len(results.stories) + Len(results.articles)

\* search.rs 99-104: a filter that is not one of SEARCH_FILTERS is refused.
SearchNewInvalid(query, search_filter) ==
    /\ pc = "idle"
    /\ UNCHANGED <<entryVars, extractVars>>
    /\ search_filter # None /\ Unwrap(search_filter) \notin SEARCH_FILTERS
    /\ pc' = "search_failed"
    /\ search_ret' = Some(Err(ParseError(<<"Invalid search filter", Unwrap(search_filter)>>)))
    /\ UNCHANGED <<filmVars, requests, merged, served>>
    /\ UNCHANGED <<search, max_pages, spage, calls, before, call_reqs, call_results>>

\* search.rs 99-115: the call up to the request of the first page.  The
\* fields of the value under construction are kept in `search`; the caller
\* has the value once pc is "search_ready".
SearchNew(query, search_filter) ==
    /\ pc = "idle"
    /\ UNCHANGED <<entryVars, extractVars>>
    /\ ~(search_filter # None /\ Unwrap(search_filter) \notin SEARCH_FILTERS)
    /\ pc' = "search_await"
    /\ search' = Some([query |-> query, search_filter |-> search_filter,
                      url |-> SearchUrl(query, search_filter), results |-> EmptyResults])
    /\ requests' = Append(requests, PlainUrl(SearchUrl(query, search_filter)))
    /\ UNCHANGED <<filmVars, merged, served>>
    /\ UNCHANGED <<search_ret, max_pages, spage, calls, before, call_reqs, call_results>>

\* search.rs 115-123: the first page arrives and Search::new returns the
\* value; the page of the plain search URL is page 1 of the results.
SearchNewOk(resp) ==
    /\ pc = "search_await"
    /\ UNCHANGED <<entryVars, extractVars>>
    /\ get_page(PlainUrl(Unwrap(search).url), resp).ok
    /\ pc' = "search_ready"
    /\ search' = Some([Unwrap(search) EXCEPT
                         !.results = parse_search_results(resp.body, Unwrap(search).search_filter).val])
    /\ search_ret' = Some(Ok(None))
    /\ merged' = <<1>>
    /\ UNCHANGED served
    /\ UNCHANGED <<filmVars, requests>>
    /\ UNCHANGED <<max_pages, spage, calls, before, call_reqs, call_results>>

\* search.rs 115: get_page fails and Search::new returns the error.
SearchNewErr(resp) ==
    /\ pc = "search_await"
    /\ UNCHANGED <<entryVars, extractVars>>
    /\ ~get_page(PlainUrl(Unwrap(search).url), resp).ok
    /\ pc' = "search_failed"
    /\ search' = None
    /\ search_ret' = Some(Err(get_page(PlainUrl(Unwrap(search).url), resp).err))
    /\ UNCHANGED <<filmVars, requests, merged, served>>
    /\ UNCHANGED <<max_pages, spage, calls, before, call_reqs, call_results>>

\* search.rs 231-232: the caller calls get_more_results(n) on its value.
GetMoreResults(n) ==
    /\ pc = "search_ready"
    /\ UNCHANGED <<entryVars, extractVars>>
    /\ calls < MaxCalls
    /\ pc' = "more_loop"
    /\ calls' = calls + 1
    /\ max_pages' = n
    /\ spage' = FIRST_MORE_PAGE
    /\ before' = Unwrap(search).results
    /\ call_reqs' = <<>>
    /\ call_results' = <<>>
    /\ search_ret' = None
    /\ UNCHANGED <<filmVars, requests, merged, served, search>>

\* search.rs 232-236: the loop goes on and requests the page.
MoreRequest ==
    /\ pc = "more_loop"
    /\ UNCHANGED <<entryVars, extractVars>>
    /\ InRange(spage, max_pages)
    /\ pc' = "more_await"
    /\ requests' = Append(requests, PageUrl(Unwrap(search).url, spage))
    /\ call_reqs' = Append(call_reqs, spage)
    /\ UNCHANGED <<filmVars, merged, served>>
    /\ UNCHANGED <<search, search_ret, max_pages, spage, calls, before, call_results>>

\* search.rs 232 and 250: the loop is over and the call returns Ok(()).
MoreReturn ==
    /\ pc = "more_loop"
    /\ UNCHANGED <<entryVars, extractVars>>
    /\ ~InRange(spage, max_pages)
    /\ pc' = "search_ready"
    /\ search_ret' = Some(Ok(None))
    /\ UNCHANGED <<filmVars, requests, merged, served>>
    /\ UNCHANGED <<search, max_pages, spage, calls, before, call_reqs, call_results>>

\* search.rs 236-248: the page arrives and its results are appended.
MorePageOk(resp) ==
    /\ pc = "more_await"
    /\ UNCHANGED <<entryVars, extractVars>>
    /\ get_page(PageUrl(Unwrap(search).url, spage), resp).ok
    /\ LET page_results == parse_search_results(resp.body, Unwrap(search).search_filter).val
       IN  /\ search' = Some([Unwrap(search) EXCEPT
                                !.results = ExtendResults(@, page_results)])
           /\ call_results' = Append(call_results, [ok |-> TRUE, yield |-> TotalLen(page_results)])
    /\ merged' = Append(merged, spage)
    /\ UNCHANGED served
    /\ spage' = spage + 1
    /\ pc' = "more_loop"
    /\ UNCHANGED <<filmVars, requests>>
    /\ UNCHANGED <<search_ret, max_pages, calls, before, call_reqs>>

\* search.rs 236: get_page fails and get_more_results returns the error;
\* the caller keeps its value as the earlier pages of the call left it.
MorePageErr(resp) ==
    /\ pc = "more_await"
    /\ UNCHANGED <<entryVars, extractVars>>
    /\ ~get_page(PageUrl(Unwrap(search).url, spage), resp).ok
    /\ pc' = "search_ready"
    /\ search_ret' = Some(Err(get_page(PageUrl(Unwrap(search).url, spage), resp).err))
    /\ call_results' = Append(call_results, [ok |-> FALSE, yield |-> 0])
    /\ UNCHANGED <<filmVars, requests, merged, served>>
    /\ UNCHANGED <<search, max_pages, spage, calls, before, call_reqs>>

SearchServed(p, n, bad) == Served(SearchDoc(p, n, bad))

(***************************************************************************)
(* User::new and List::from_url                                             *)
(***************************************************************************)
\* The URL of the request that is waiting for its response.
Pending == requests[Len(requests)].base

\* user.rs 79-83: a username the pattern does not match is refused.
UserNewInvalid(username) ==
    /\ pc = "idle"
    /\ ~username_regex_is_match(username)
    /\ pc' = "user_failed"
    /\ user_ret' = Some(Err(InvalidUsername(username)))
    /\ UNCHANGED <<filmVars, requests, merged, served, searchVars, list_ret, extractVars>>

\* user.rs 79-89: the call up to the request of the profile page.
UserNew(username) ==
    /\ pc = "idle"
    /\ username_regex_is_match(username)
    /\ pc' = "user_await"
    /\ requests' = Append(requests, PlainUrl(UserUrl(ToLowercase(username))))
    /\ UNCHANGED <<filmVars, merged, served, searchVars, entryVars, extractVars>>

\* user.rs 89-94: the page arrives and User::new returns the value.
UserNewOk(resp) ==
    /\ pc = "user_await"
    /\ get_page(PlainUrl(Pending), resp).ok
    /\ pc' = "user_done"
    /\ user_ret' = Some(parse_user_data(resp.body, Pending.segs[2], Pending))
    /\ UNCHANGED <<filmVars, requests, merged, served, searchVars, list_ret, extractVars>>

\* user.rs 89: get_page fails and User::new returns the error.
UserNewErr(resp) ==
    /\ pc = "user_await"
    /\ ~get_page(PlainUrl(Pending), resp).ok
    /\ pc' = "user_failed"
    /\ user_ret' = Some(Err(get_page(PlainUrl(Pending), resp).err))
    /\ UNCHANGED <<filmVars, requests, merged, served, searchVars, list_ret, extractVars>>

\* list.rs 44-46: the call requests the page of the URL it was given.
ListFromUrl(u) ==
    /\ pc = "idle"
    /\ pc' = "list_await"
    /\ requests' = Append(requests, PlainUrl(u))
    /\ UNCHANGED <<filmVars, merged, served, searchVars, entryVars, extractVars>>

\* list.rs 46-59: the page arrives; a URL of fewer than six parts is refused,
\* any other gives the list parsed from the page.
ListFromUrlOk(resp) ==
    /\ pc = "list_await"
    /\ get_page(PlainUrl(Pending), resp).ok
    /\ LET url_parts == SplitSlash(Pending)
       IN  IF Len(url_parts) < MIN_URL_PARTS
           THEN /\ pc' = "list_failed"
                /\ list_ret' = Some(Err(ParseError("Invalid list URL format")))
           ELSE /\ pc' = "list_done"
                /\ list_ret' = Some(parse_list_data(resp.body, url_parts[AUTHOR_PART + 1],
                                                    url_parts[SLUG_PART + 1], Pending))
    /\ UNCHANGED <<filmVars, requests, merged, served, searchVars, user_ret, extractVars>>

\* list.rs 46: get_page fails and List::from_url returns the error.
ListFromUrlErr(resp) ==
    /\ pc = "list_await"
    /\ ~get_page(PlainUrl(Pending), resp).ok
    /\ pc' = "list_failed"
    /\ list_ret' = Some(Err(get_page(PlainUrl(Pending), resp).err))
    /\ UNCHANGED <<filmVars, requests, merged, served, searchVars, user_ret, extractVars>>

Next ==
    \/ \E u \in FilmUrls : FilmsNew(u)
    \/ FilmsRequest
    \/ \E shape \in PageShapes(MaxPerPage(url)), again \in BOOLEAN :
          FilmsPageOk(FilmsServed(shape, again))
    \/ \E resp \in Failures : FilmsPageErr(resp)
    \/ \E q \in Queries, f \in Filters : SearchNewInvalid(q, f)
    \/ \E q \in Queries, f \in Filters : SearchNew(q, f)
    \/ \E n \in {0, MaxSearchFilms}, bad \in {0, 1} : SearchNewOk(SearchServed(1, n, bad))
    \/ \E resp \in Failures : SearchNewErr(resp)
    \/ \E n \in 0..MaxPagesArg : GetMoreResults(n)
    \/ MoreRequest
    \/ MoreReturn
    \/ \E n \in {0, MaxSearchFilms}, bad \in {0, 1} : MorePageOk(SearchServed(spage, n, bad))
    \/ \E resp \in Failures : MorePageErr(resp)
    \/ \E username \in Usernames : UserNewInvalid(username)
    \/ \E username \in Usernames : UserNew(username)
    \/ \E dom \in ProfilePages : UserNewOk(Served(dom))
    \/ \E resp \in Failures : UserNewErr(resp)
    \/ \E u \in ListUrls : ListFromUrl(u)
    \/ \E dom \in ListPages : ListFromUrlOk(Served(dom))
    \/ \E resp \in Failures : ListFromUrlErr(resp)

Spec == Init /\ [][Next]_vars

\* The caller's task is run to its end and every request is answered, with a
\* document or with a failure.
FairSpec == Spec /\ WF_vars(Next)

(***************************************************************************)
(* The extractors, the derived views and the page fetcher on their own:    *)
(* a second specification, whose initial states draw the inputs and whose  *)
(* actions apply the functions of the program to them.                     *)
(***************************************************************************)
\* Largest number of complete fragments of a document.
MaxGood == 5
\* Largest number of entries of a Films value the views are taken of.
MaxEntries == 2
\* Largest index of a fragment whose href is given to extract_film_slug, and
\* largest position asked of get_film_by_position.
MaxLookup == 3

\* A document of n complete fragments, for the films 1 .. n in edition 0,
\* with `bad` fragments of the kind `kind` after the first of them, followed
\* by dup fragments that carry film 1 once more, in edition 1.
Mixed(n, bad, kind, dup) ==
    LET m == IF n >= 1 THEN 1 ELSE 0
    IN  [i \in 1..(n + bad + dup) |->
            IF i <= m THEN Frag("ok", 1, 0)
            ELSE IF i <= m + bad THEN Frag(kind, 100 + i, 0)
            ELSE IF i <= n + bad THEN Frag("ok", i - bad, 0)
            ELSE Frag("ok", 1, 1)]

Docs ==
    { Mixed(n, bad, kind, dup) :
        n \in 0..MaxGood, bad \in 0..MaxBad, kind \in Kinds, dup \in 0..MaxDup }

\* The documents of the page before: none of its fragments, films 1 and 9 in
\* edition 2, or a fragment whose href is "/film/".
PriorDocs ==
    { <<>>, <<Frag("ok", 1, 2), Frag("ok", 9, 2)>>, <<Frag("bare", 8, 2)>> }

\* The Films values the views are taken of: up to MaxEntries entries, each
\* with a year, a rating or one of the flags set, or none of them.
EntryVariants(n) ==
    LET e == FilmEntry(TitleOf(n, 0), None, <<ToString(n)>>, DOMAIN_URL \o HrefOf(n), None)
    IN  { e,
          [e EXCEPT !.year = Some(1999)], [e EXCEPT !.year = Some(2000)],
          [e EXCEPT !.rating = Some(35)],
          [e EXCEPT !.watched = TRUE], [e EXCEPT !.liked = TRUE],
          [e EXCEPT !.in_watchlist = TRUE] }

Collections ==
    UNION { { m \in [ { <<ToString(n)>> : n \in S } ->
                      UNION { EntryVariants(n) : n \in S } ] :
                \A k \in DOMAIN m : m[k].slug = k } :
            S \in SUBSET (1..MaxEntries) }

\* The orders in which HashMap::values may visit the entries of m.
Orders(m) ==
    { o \in [1..Cardinality(DOMAIN m) -> DOMAIN m] :
        \A i, j \in DOMAIN o : i # j => o[i] # o[j] }

Responses ==
    [send : BOOLEAN, status : {200, 204, 301, 403, 404, 500}, text : BOOLEAN,
     body : {EmptyDoc}]

PureInit ==
    /\ \/ /\ pc = "x_prior"
          /\ url \in { u \in FilmUrls : Contains(u, "films") \/ Contains(u, "film") }
          /\ frags \in PriorDocs
          /\ movies = EmptyMap
          /\ search = Some([query |-> <<"nolan">>, search_filter |-> Some("films"),
                            url |-> SearchUrl(<<"nolan">>, Some("films")),
                            results |-> EmptyResults])
          /\ response = None
       \/ /\ pc = "v_ready"
          /\ url = NoUrl
          /\ frags = <<>>
          /\ movies \in Collections
          /\ search = None
          /\ response = None
       \/ /\ pc = "g_ready"
          /\ url \in FilmUrls
          /\ frags = <<>>
          /\ movies = EmptyMap
          /\ search = None
          /\ response \in { Some(r) : r \in Responses }
    /\ ajax_url = NoUrl
    /\ page = 0
    /\ new_count = 0
    /\ well_formed = 0
    /\ count = 0
    /\ films_ret = None
    /\ requests = <<>>
    /\ fetch_result = None
    /\ merged = <<>>
    /\ served = {}
    /\ search_ret = None
    /\ max_pages = 0
    /\ spage = 0
    /\ calls = 0
    /\ before = EmptyResults
    /\ call_reqs = <<>>
    /\ call_results = <<>>
    /\ user_ret = None
    /\ list_ret = None
    /\ entries = <<>>
    /\ view = None
    /\ film_slug = None
    /\ found = None
    /\ text = <<>>
    /\ shorthand = None
    /\ count_text = None
    /\ written_date = None
    /\ sanitized = None
    /\ resanitized = None

\* The variables the actions of this specification leave alone.
idleVars ==
    <<url, ajax_url, page, well_formed, count, films_ret, requests, merged, served,
      search_ret,
      max_pages, spage, calls, before, call_reqs, call_results, user_ret, textVars>>

\* The extractors applied to the document of the fragments `frags`:
\* films.rs 65-74 (new_movies, new_count, movies.extend), search.rs 237-247
\* (parse_search_results and the merge), list.rs 62-121 (parse_list_data)
\* and user_diary.rs 71-120 (entries).
Extract ==
    /\ LET new_movies == NewMovies(url, IF Contains(url, "films")
                                        THEN GridDoc(frags) ELSE ListDoc(frags)).val
       IN  /\ new_count' = HashMapLen(new_movies)
           /\ movies' = HashMapExtend(movies, new_movies)
    /\ search' = Some([Unwrap(search) EXCEPT
                         !.results = ExtendResults(@,
                             parse_search_results(ListDoc(frags),
                                                  Unwrap(search).search_filter).val)])
    /\ list_ret' = Some(parse_list_data(ListPage(None, None, <<>>, frags, <<>>),
                                        "u", "top", url))
    /\ entries' = DiaryEntries(frags)

\* The page before is extracted and the next document arrives.
ExtractPrior(next) ==
    /\ pc = "x_prior"
    /\ Extract
    /\ pc' = "x_page"
    /\ frags' = next
    /\ UNCHANGED <<idleVars, fetch_result, view, response, film_slug, found>>

\* The document is extracted and merged into what the page before gave.
ExtractPage ==
    /\ pc = "x_page"
    /\ Extract
    /\ pc' = "x_done"
    /\ UNCHANGED <<idleVars, fetch_result, frags, view, response, film_slug, found>>

\* The frame of a lookup in what the extraction gave.
lookupFrame ==
    <<idleVars, movies, new_count, search, list_ret, entries, frags, fetch_result, view,
      response>>

\* parser.rs 174-185 on the href of the i-th fragment of the page.
ExtractFilmSlug(i) ==
    /\ pc = "x_done"
    /\ i \in DOMAIN frags /\ frags[i].link # None /\ Unwrap(frags[i].link).href # None
    /\ pc' = "slug_done"
    /\ LET href == Unwrap(Unwrap(frags[i].link).href)
       IN  film_slug' = Some([url |-> href, slug |-> extract_film_slug(href)])
    /\ UNCHANGED <<lookupFrame, found>>

\* list.rs 229-231 on the list parsed from the page.
GetFilmByPosition(position) ==
    /\ pc = "x_done"
    /\ pc' = "found_done"
    /\ found' = Some([position |-> position,
                      film |-> get_film_by_position(Unwrap(list_ret).val.films, position)])
    /\ UNCHANGED <<lookupFrame, film_slug>>

viewFrame ==
    <<idleVars, pc, movies, new_count, search, list_ret, entries, frags, fetch_result,
      response, film_slug, found>>

FilterByYear(order, year) ==
    /\ pc = "v_ready"
    /\ view' = Some([op |-> "filter_by_year", arg |-> Some(year),
                     refs |-> filter_by_year(movies, order, year)])
    /\ UNCHANGED viewFrame

FilterByRating(order, min_rating) ==
    /\ pc = "v_ready"
    /\ view' = Some([op |-> "filter_by_rating", arg |-> Some(min_rating),
                     refs |-> filter_by_rating(movies, order, min_rating)])
    /\ UNCHANGED viewFrame

GetWatched(order) ==
    /\ pc = "v_ready"
    /\ view' = Some([op |-> "get_watched", arg |-> None,
                     refs |-> get_watched(movies, order)])
    /\ UNCHANGED viewFrame

GetLiked(order) ==
    /\ pc = "v_ready"
    /\ view' = Some([op |-> "get_liked", arg |-> None,
                     refs |-> get_liked(movies, order)])
    /\ UNCHANGED viewFrame

GetInWatchlist(order) ==
    /\ pc = "v_ready"
    /\ view' = Some([op |-> "get_in_watchlist", arg |-> None,
                     refs |-> get_in_watchlist(movies, order)])
    /\ UNCHANGED viewFrame

\* client.rs 34-55 on the response at hand.
GetPage ==
    /\ pc = "g_ready"
    /\ pc' = "g_done"
    /\ fetch_result' = Some(get_page(PlainUrl(url), Unwrap(response)))
    /\ UNCHANGED <<idleVars, movies, new_count, search, list_ret, entries, frags, view,
                   response, film_slug, found>>

\* The entries of the Films value at hand when a view is taken of it.
Views == IF pc = "v_ready" THEN movies ELSE EmptyMap

PureNext ==
    \/ \E next \in Docs : ExtractPrior(next)
    \/ ExtractPage
    \/ \E i \in 1..MaxLookup : ExtractFilmSlug(i)
    \/ \E position \in 0..MaxLookup : GetFilmByPosition(position)
    \/ \E order \in Orders(Views), year \in {1999, 2000, 2001} : FilterByYear(order, year)
    \/ \E order \in Orders(Views), min_rating \in {0, 35, 40} :
          FilterByRating(order, min_rating)
    \/ \E order \in Orders(Views) : GetWatched(order)
    \/ \E order \in Orders(Views) : GetLiked(order)
    \/ \E order \in Orders(Views) : GetInWatchlist(order)
    \/ GetPage

PureSpec == PureInit /\ [][PureNext]_vars

(***************************************************************************)
(* The text utilities, each applied to a text.                              *)
(***************************************************************************)
\* Largest number of characters of a count text and of a title.
MaxText == 4

\* The sequences over the set S of at most n elements.
RECURSIVE SeqsUpTo(_, _)
SeqsUpTo(S, n) ==
    IF n = 0 THEN { <<>> }
    ELSE LET shorter == SeqsUpTo(S, n - 1)
         IN  shorter \cup { Append(t, c) : t \in shorter, c \in S }

\* The count texts: digits, the decimal point, the grouping comma, the two
\* suffixes, whitespace and a letter that is neither suffix.
CountChars == {"1", "3", ".", ",", "K", "M", " ", "x"}
CountTexts == SeqsUpTo(CountChars, MaxText)

\* The titles: letters of both cases, a digit, the dash, whitespace,
\* punctuation and an uppercase letter without a lowercase one.
TitleChars == {"A", "b", "1", "-", " ", ":", BOLD_CAPITAL_A}
TitleTexts == SeqsUpTo(TitleChars, MaxText)

\* The written dates: words for the day, the month and the year, two, three
\* or four of them, with one space between them or with more.
DayWords == { <<"1">>, <<"3", "1">>, <<"3", "2">>, <<"0">>, <<"x">> }
MonthWords == { <<"J", "a", "n">>, <<"j", "A", "N">>, <<"D", "e", "c">>,
                <<"J", "u", "n", "e">> }
YearWords == { <<"2", "0", "2", "5">>, <<"-", "5">>, <<"x">> }
DateTexts ==
    UNION { { d \o <<" ">> \o m \o <<" ">> \o y,
              <<" ">> \o d \o <<" ", " ">> \o m \o <<" ">> \o y \o <<" ">>,
              d \o <<" ">> \o m,
              d \o <<" ">> \o m \o <<" ">> \o y \o <<" ">> \o y } :
            d \in DayWords, m \in MonthWords, y \in YearWords }

TextInit ==
    /\ \/ pc = "n_ready" /\ text \in CountTexts
       \/ pc = "d_ready" /\ text \in DateTexts
       \/ pc = "s_ready" /\ text \in TitleTexts
    /\ url = NoUrl
    /\ ajax_url = NoUrl
    /\ page = 0
    /\ movies = EmptyMap
    /\ new_count = 0
    /\ well_formed = 0
    /\ count = 0
    /\ films_ret = None
    /\ requests = <<>>
    /\ fetch_result = None
    /\ merged = <<>>
    /\ served = {}
    /\ search = None
    /\ search_ret = None
    /\ max_pages = 0
    /\ spage = 0
    /\ calls = 0
    /\ before = EmptyResults
    /\ call_reqs = <<>>
    /\ call_results = <<>>
    /\ user_ret = None
    /\ list_ret = None
    /\ frags = <<>>
    /\ entries = <<>>
    /\ view = None
    /\ response = None
    /\ film_slug = None
    /\ found = None
    /\ shorthand = None
    /\ count_text = None
    /\ written_date = None
    /\ sanitized = None
    /\ resanitized = None

\* The variables the text utilities leave alone.
textIdle ==
    <<url, ajax_url, page, well_formed, count, films_ret, requests, merged, served,
      search_ret, max_pages, spage, calls, before, call_reqs, call_results, user_ret,
      movies, new_count, search, list_ret, entries, frags, fetch_result, view, response,
      film_slug, found>>

\* parser.rs 10-26
ExtractAndConvertShorthand ==
    /\ pc = "n_ready"
    /\ pc' = "n_count"
    /\ shorthand' = Some(extract_and_convert_shorthand(text))
    /\ UNCHANGED <<textIdle, text, count_text, written_date, sanitized, resanitized>>

\* list.rs 162-174, on the text the shared helper was given.
ParseCountText ==
    /\ pc = "n_count"
    /\ pc' = "n_done"
    /\ count_text' = Some(parse_count_text(text))
    /\ UNCHANGED <<textIdle, text, shorthand, written_date, sanitized, resanitized>>

\* parser.rs 53-70
ParseWrittenDate ==
    /\ pc = "d_ready"
    /\ pc' = "d_done"
    /\ written_date' = Some(parse_written_date(text))
    /\ UNCHANGED <<textIdle, text, shorthand, count_text, sanitized, resanitized>>

\* validators.rs 73-105
SanitizeForUrl ==
    /\ pc = "s_ready"
    /\ pc' = "s_once"
    /\ sanitized' = Some(sanitize_for_url(text))
    /\ UNCHANGED <<textIdle, text, shorthand, count_text, written_date, resanitized>>

\* validators.rs 73-105, on its own result.
SanitizeAgain ==
    /\ pc = "s_once"
    /\ pc' = "s_twice"
    /\ resanitized' = Some(sanitize_for_url(Unwrap(sanitized)))
    /\ UNCHANGED <<textIdle, text, shorthand, count_text, written_date, sanitized>>

TextNext ==
    \/ ExtractAndConvertShorthand
    \/ ParseCountText
    \/ ParseWrittenDate
    \/ SanitizeForUrl
    \/ SanitizeAgain

TextSpec == TextInit /\ [][TextNext]_vars

(***************************************************************************)
(* Properties of a Films pagination run.                                    *)
(***************************************************************************)
FilmsRunning == pc \in {"films_loop", "films_await"}
FilmsEnded == pc \in {"films_done", "films_failed"}

\* C1: a Films run goes on after a fetched page only if that page yielded a
\* full page of valid records: once a page yields fewer successfully parsed
\* fragments than the full-page size of the URL's layout (also when it yields
\* none), the run has ended with Ok and requests no further page.
C1_ShortPageEndsRun ==
    /\ (FilmsRunning /\ fetch_result # None) => well_formed >= MaxPerPage(url)
    /\ (fetch_result = Some(Ok(None)) /\ well_formed < MaxPerPage(url))
          => (pc = "films_done" /\ films_ret = Some(Ok(None)))

C1_Witness ==
    /\ pc = "films_done" /\ films_ret = Some(Ok(None))
    /\ well_formed = 15 /\ Len(requests) = 3 /\ HashMapLen(movies) < CEILING

\* C2: every Films run ends: from the start of the loop the run reaches the
\* return of Films::new, with Ok or with the error of a failed fetch.
C2_FilmsRunEnds == (pc = "films_loop") ~> FilmsEnded

\* C3: no page is requested once the collected count has reached the ceiling
\* of 1000, and a returned count of 1000 or more exceeds 1000 by less than
\* the number of records of the last page.
C3_Ceiling ==
    /\ FilmsRunning => HashMapLen(movies) < CEILING
    /\ pc = "films_done" => (count = HashMapLen(movies) /\ count < CEILING + new_count)

C3_Witness ==
    pc = "films_done" /\ count >= CEILING /\ new_count = HORIZONTAL_MAX

\* C4: when get_page fails for a page of a Films run, Films::new returns that
\* error at once, nothing of what the earlier pages gave is returned, and no
\* page is requested afterwards.
C4_FetchFailureAborts ==
    [][ /\ (pc = "films_await" /\ ~Unwrap(fetch_result').ok)
            => /\ pc' = "films_failed"
               /\ films_ret' = Some(Err(Unwrap(fetch_result').err))
               /\ movies' = EmptyMap
               /\ requests' = requests
        /\ pc = "films_failed" => (pc' = "films_failed" /\ requests' = requests) ]_vars

C4_Witness ==
    /\ pc = "films_failed" /\ films_ret = Some(Err(PrivateRoute))
    /\ merged = <<1>> /\ Len(requests) = 2 /\ new_count = HORIZONTAL_MAX /\ movies = EmptyMap

\* C6: the pages of a Films run are requested one at a time in the order
\* 1, 2, 3, ...: the i-th request is for page i, so none is requested twice,
\* and when page N is requested the pages merged are exactly 1 .. N-1.
FilmsCall == pc \in {"films_loop", "films_await", "films_done", "films_failed"}
UpTo(n) == [i \in 1..n |-> i]

C6_OnePageAtATime ==
    FilmsCall =>
        /\ \A i \in DOMAIN requests : requests[i] = PageUrl(ajax_url, i)
        /\ merged = UpTo(Len(merged))
        /\ Len(merged) <= Len(requests) /\ Len(requests) <= Len(merged) + 1
        /\ (pc = "films_await" /\ page <= MaxPage)
              => (Len(requests) = page /\ Len(merged) = page - 1)
        /\ (pc = "films_loop" /\ page <= MaxPage)
              => (Len(requests) = page - 1 /\ Len(merged) = page - 1)

C6_Witness ==
    pc = "films_await" /\ page = 3 /\ merged = <<1, 2>> /\ Len(requests) = 3

(***************************************************************************)
(* Properties of Search::get_more_results.                                  *)
(***************************************************************************)
MaxOf(seq) == CHOOSE x \in {seq[i] : i \in DOMAIN seq} : \A j \in DOMAIN seq : seq[j] <= x

\* C5: after a get_more_results call that returned the error of a failed
\* fetch, the result lists of the Search value are what they were before the
\* call.
C5_FailedCallDiscards ==
    (pc = "search_ready" /\ calls > 0 /\ search_ret # None /\ ~Unwrap(search_ret).ok)
        => Unwrap(search).results = before

\* C7: the first page a get_more_results call requests is the one after the
\* last page whose records the Search value holds, page 1 is never requested
\* again, and no page's records are appended twice.
C7_ContinuesAfterLastPage ==
    pc \in {"search_ready", "more_loop", "more_await"} =>
        /\ (pc = "more_await" /\ Len(call_reqs) = 1) => call_reqs[1] = MaxOf(merged) + 1
        /\ \A i \in DOMAIN requests : requests[i].page # Some(1)
        /\ \A i, j \in DOMAIN merged : i < j => merged[i] # merged[j]

\* C8: a get_more_results call requests no page after a page that yielded
\* fewer records than a full page; in particular none after a page that
\* yielded no record at all.
C8_StopsAfterShortPage ==
    pc = "more_await" =>
        \A i \in DOMAIN call_results : call_results[i].ok => call_results[i].yield > 0

\* C9: one call get_more_results(N) requests at most N pages, none when N is
\* 0, and it returns Ok only when every page it requested was fetched.
MoreCall == pc \in {"more_loop", "more_await"} \/ (pc = "search_ready" /\ calls > 0)

C9_AtMostNFetches ==
    MoreCall =>
        /\ Len(call_reqs) <= max_pages
        /\ (pc = "search_ready" /\ search_ret = Some(Ok(None)))
              => /\ Len(call_results) = Len(call_reqs)
                 /\ \A i \in DOMAIN call_results : call_results[i].ok

C9_Witness ==
    /\ pc = "search_ready" /\ search_ret = Some(Ok(None))
    /\ max_pages = MaxPagesArg /\ call_reqs = <<2, 3>>

(***************************************************************************)
(* Properties of the collections.                                           *)
(***************************************************************************)
\* C10: no result list of a Search value ever gets shorter, and while the
\* pages of a Films run are fetched successfully every slug of the collection
\* stays in it.
C10_MonotonicGrowth ==
    [][ /\ (search # None /\ pc' # "search_failed")
            => /\ search' # None
               /\ \A f \in ResultLists :
                     Len(Unwrap(search').results[f]) >= Len(Unwrap(search).results[f])
        /\ (FilmsCall /\ pc' # "films_failed")
            => DOMAIN movies \subseteq DOMAIN movies' ]_vars

C10_Witness ==
    /\ pc = "films_loop" /\ merged = <<1, 2>>
    /\ HashMapLen(movies) = 2 * HORIZONTAL_MAX


(***************************************************************************)
(* Properties of the extractors.                                            *)
(***************************************************************************)
Extracting == pc \in {"x_prior", "x_page"}

\* The href of a fragment whose link has one, as an option.
HrefIn(e) == IF e.link = None THEN None ELSE Unwrap(e.link).href

\* What the extractor of the URL's layout needs of a fragment: the grid
\* needs the image with its alt and the link with its href, the list the
\* title link with its href.
Carried(original_url, e) ==
    IF Contains(original_url, "films")
    THEN e.img # None /\ Unwrap(e.img).alt # None /\ HrefIn(e) # None
    ELSE HrefIn(e) # None

RecordOf(original_url, e) ==
    IF Contains(original_url, "films")
    THEN parse_horizontal_film(e).val ELSE parse_vertical_film(e).val

\* The fragments of `frags` that carry the slug s, by their indices.
Carriers(s) ==
    { i \in DOMAIN frags :
        Carried(url, frags[i]) /\ SlugOfHref(Unwrap(HrefIn(frags[i]))) = s }

Last(S) == CHOOSE i \in S : \A j \in S : j <= i

\* C11: a Films collection is keyed by slug.  When a page is merged, the
\* keys are those it had and the slugs the fragments of the page carry, each
\* record is stored under its own slug, the record of a slug the page carries
\* is that of the last fragment of the page that carries it, and the record
\* of any other slug is the one the collection had.
C11_KeyedLatestWins ==
    [][ Extracting =>
          /\ DOMAIN movies' =
                DOMAIN movies \cup
                { SlugOfHref(Unwrap(HrefIn(frags[i]))) :
                    i \in { j \in DOMAIN frags : Carried(url, frags[j]) } }
          /\ \A s \in DOMAIN movies' :
                /\ movies'[s].slug = s
                /\ IF Carriers(s) = {}
                   THEN movies'[s] = movies[s]
                   ELSE movies'[s] = RecordOf(url, frags[Last(Carriers(s))]) ]_vars

\* Film 1 came in edition 2 on the page before and in editions 0 and 1 on
\* this page: edition 1, the last, is stored; film 9 of the page before stays.
C11_Witness ==
    /\ pc = "x_done"
    /\ <<"1">> \in DOMAIN movies /\ movies[<<"1">>].title = TitleOf(1, 1)
    /\ <<"9">> \in DOMAIN movies /\ movies[<<"9">>].title = TitleOf(9, 2)
    /\ Cardinality(Carriers(<<"1">>)) = 2
    /\ HashMapLen(movies) = MaxGood + 1

\* The records the search extractor gets from the fragments, in their order.
RECURSIVE FilmBatch(_)
FilmBatch(fragments) ==
    IF fragments = <<>> THEN <<>>
    ELSE (IF HrefIn(Head(fragments)) # None
          THEN <<parse_film_result(Head(fragments)).val>> ELSE <<>>)
         \o FilmBatch(Tail(fragments))

\* C12: the result lists of a Search value are ordered.  When a page is
\* merged, the list of films is what it was followed by the records of the
\* page's fragments in their order, one for each fragment also when slugs
\* repeat, and every other list is what it was.
C12_OrderedConcatenation ==
    [][ Extracting =>
          /\ Unwrap(search').results.films =
                Unwrap(search).results.films \o FilmBatch(frags)
          /\ \A f \in ResultLists \ {"films"} :
                Unwrap(search').results[f] = Unwrap(search).results[f] ]_vars

C12_Witness ==
    /\ pc = "x_done"
    /\ LET films == Unwrap(search).results.films
       IN  /\ Len(films) = 5
           /\ films[1].title = TitleOf(1, 2) /\ films[2].title = TitleOf(9, 2)
           /\ films[3].title = TitleOf(1, 0) /\ films[4].title = TitleOf(2, 0)
           /\ films[5].title = TitleOf(1, 1)
           /\ films[1].slug = films[3].slug /\ films[3].slug = films[5].slug

\* What parse_list_film needs of a fragment.
ListComplete(e) ==
    /\ e.poster # None
    /\ Unwrap(e.poster).img # None /\ Unwrap(Unwrap(e.poster).img).alt # None
    /\ Unwrap(e.poster).link # None /\ Unwrap(Unwrap(e.poster).link).href # None

\* C13: a fragment that lacks a required title or link gives no record and
\* no error: the films of the list are those of the fragments that lack
\* nothing, in their order, the Films page gives one record per slug of the
\* fragments that lack nothing, the diary one entry per row with a film
\* link, and every extraction returns Ok.
C13_MalformedFragmentSkipped ==
    pc = "x_done" =>
        /\ Unwrap(list_ret).ok
        /\ LET complete == SelectSeq(frags, ListComplete)
               films == Unwrap(list_ret).val.films
           IN  /\ Len(films) = Len(complete)
               /\ \A j \in DOMAIN films :
                     films[j].title = Unwrap(Unwrap(Unwrap(complete[j].poster).img).alt)
        /\ NewMovies(url, GridDoc(frags)).ok /\ NewMovies(url, ListDoc(frags)).ok
        /\ new_count = Cardinality({ s \in DOMAIN movies : Carriers(s) # {} })
        /\ Len(entries) = Len(SelectSeq(frags, LAMBDA e : e.link # None))

\* Five complete fragments and three without a link: five records.
C13_Witness ==
    /\ pc = "x_done"
    /\ Len(frags) = 8
    /\ Len(SelectSeq(frags, LAMBDA e : e.link = None)) = 3
    /\ Len(Unwrap(list_ret).val.films) = 5
    /\ new_count = 5
    /\ Len(entries) = 5

\* The slugs of the records of a sequence of records.
SlugsOf(records) == { records[j].slug : j \in DOMAIN records }

\* The hrefs of the fragments of `frags` that do not contain "/film/".
ForeignHrefs ==
    { Unwrap(HrefIn(frags[i])) :
        i \in { j \in DOMAIN frags :
                  HrefIn(frags[j]) # None /\ ~HasFilmMarker(Unwrap(HrefIn(frags[j]))) } }

\* C14: a link whose href does not contain the "/film/" marker is an
\* extraction failure for its fragment: the film-grid, film-list,
\* search-result, list-film and diary-row extractors give no record for it.
C14_ForeignHrefGivesNoRecord ==
    [][ Extracting =>
          \A h \in ForeignHrefs :
              LET s == SlugOfHref(h)
                  had == Len(Unwrap(search).results.films)
                  films == Unwrap(search').results.films
              IN  /\ s \notin DOMAIN movies' \ DOMAIN movies
                  /\ s \notin SlugsOf(SubSeq(films, had + 1, Len(films)))
                  /\ s \notin SlugsOf(Unwrap(list_ret').val.films)
                  /\ s \notin SlugsOf(entries') ]_vars

\* C15: every record of every returned collection has a slug that is not
\* empty, whatever the hrefs of the page were.
C15_SlugsNonEmpty ==
    /\ <<>> \notin DOMAIN movies
    /\ search # None => <<>> \notin SlugsOf(Unwrap(search).results.films)
    /\ list_ret # None => <<>> \notin SlugsOf(Unwrap(list_ret).val.films)
    /\ <<>> \notin SlugsOf(entries)

\* C16: the full-page size of the grid layout, chosen by "/films/" in the
\* URL, is larger than that of the list layout, chosen by "/film/".
C16_GridLargerThanList ==
    Contains(url, "films") =>
        \A list \in FilmUrls :
            (~Contains(list, "films") /\ Contains(list, "film"))
                => MaxPerPage(url) > MaxPerPage(list)

\* The call returned the error of a format check.
Rejected(ret, kind) == ret # None /\ ~Unwrap(ret).ok /\ Unwrap(ret).err.kind = kind

\* C17: when Search::new refuses a filter, User::new a username or
\* List::from_url a URL of too few parts, no page was requested before.
C17_RejectionBeforeFetch ==
    /\ Rejected(search_ret, "Parse") => requests = <<>>
    /\ Rejected(user_ret, "InvalidUsername") => requests = <<>>
    /\ Rejected(list_ret, "Parse") => requests = <<>>

\* The diary rows of `frags` that have a film link: one entry each.
LinkedRows == SelectSeq(frags, LAMBDA e : e.link # None)

\* C18: an attribute the markup lacks is reported as unknown and never as a
\* default value: a diary row without a date does not get month or day 0 or
\* 1, a list page without stats does not get counts of 0, and a film
\* fragment, which has no status flags, does not get flags that are false.
C18_AbsentIsUnknown ==
    pc = "x_done" =>
        /\ \A j \in DOMAIN entries :
              LinkedRows[j].date = None =>
                  entries[j].month \notin {0, 1} /\ entries[j].day \notin {0, 1}
        /\ LET list == Unwrap(list_ret).val
           IN  list.film_count # 0 /\ list.likes # 0 /\ list.comments # 0
        /\ \A s \in DOMAIN movies :
              movies[s].watched # FALSE /\ movies[s].liked # FALSE
                  /\ movies[s].in_watchlist # FALSE

(***************************************************************************)
(* Properties of the derived views.                                         *)
(***************************************************************************)
\* The predicate of the view op with argument arg, on the record f.
Satisfies(op, arg, f) ==
    CASE op = "filter_by_year" -> f.year # None /\ Unwrap(f.year) = Unwrap(arg)
      [] op = "filter_by_rating" -> f.rating # None /\ Unwrap(f.rating) >= Unwrap(arg)
      [] op = "get_watched" -> f.watched
      [] op = "get_liked" -> f.liked
      [] op = "get_in_watchlist" -> f.in_watchlist

\* C19: a derived view leaves the collection as it was and refers to the
\* stored records that satisfy its predicate, to each of them once and to no
\* other; a record whose year is unknown is in no view by year and one whose
\* rating is unknown in no view by rating.
C19_ViewsExact ==
    [][ pc = "v_ready" =>
          /\ movies' = movies
          /\ LET v == Unwrap(view')
             IN  /\ \A i, j \in DOMAIN v.refs : i # j => v.refs[i] # v.refs[j]
                 /\ { v.refs[i] : i \in DOMAIN v.refs } =
                        { k \in DOMAIN movies : Satisfies(v.op, v.arg, movies[k]) }
                 /\ v.op = "filter_by_year" =>
                        \A i \in DOMAIN v.refs : movies[v.refs[i]].year # None
                 /\ v.op = "filter_by_rating" =>
                        \A i \in DOMAIN v.refs : movies[v.refs[i]].rating # None ]_vars

\* A view by year of two records, one of that year and one of unknown year.
C19_Witness ==
    /\ pc = "v_ready" /\ view # None
    /\ Unwrap(view).op = "filter_by_year"
    /\ HashMapLen(movies) = 2
    /\ Len(Unwrap(view).refs) = 1
    /\ \E k \in DOMAIN movies : movies[k].year = None

(***************************************************************************)
(* Properties of the page fetcher.                                          *)
(***************************************************************************)
NOT_FOUND_MESSAGE == <<"Page not found">>

\* The request was answered, with a status that is neither 200, 403 nor 404,
\* or it was not answered or its body could not be read.
TransportFailure(resp) ==
    \/ ~resp.send
    \/ resp.status \notin {200, 403, 404}
    \/ resp.status = 200 /\ ~resp.text

IsFilmHref(href) ==
    /\ Len(href) = Len(FILM_PREFIX) + 2
    /\ IsPrefix(FILM_PREFIX, href)
    /\ href[Len(FILM_PREFIX) + 1] # "/"
    /\ href[Len(href)] = "/"

SlugWord(href) == <<href[Len(FILM_PREFIX) + 1]>>

\* The record was made of a fragment whose href is "/film/<slug>/" and its
\* slug is <slug>, or it was made of another href.
SlugKept(record) ==
    IsFilmHref(Tail(record.url)) => record.slug = SlugWord(Tail(record.url))

Extracted == pc \in {"x_done", "slug_done", "found_done"}

\* C22: for an href "/film/<slug>/" whose <slug> is not empty and has no
\* "/", the grid, list, search-result, list-film and diary-row extractors
\* and extract_film_slug give exactly <slug>.
C22_SlugOfFilmHref ==
    /\ \A s \in DOMAIN movies : SlugKept(movies[s])
    /\ search # None =>
          \A j \in DOMAIN Unwrap(search).results.films :
              SlugKept(Unwrap(search).results.films[j])
    /\ list_ret # None =>
          \A j \in DOMAIN Unwrap(list_ret).val.films : SlugKept(Unwrap(list_ret).val.films[j])
    /\ Extracted =>
          \A j \in DOMAIN entries :
              LET href == HrefIn(LinkedRows[j])
              IN  (href # None /\ IsFilmHref(Unwrap(href))) =>
                      entries[j].slug = SlugWord(Unwrap(href))
    /\ (film_slug # None /\ IsFilmHref(Unwrap(film_slug).url)) =>
          Unwrap(film_slug).slug = Some(SlugWord(Unwrap(film_slug).url))

\* The href "/film/film/" went through every extractor and through
\* extract_film_slug.
C22_Witness ==
    /\ pc = "slug_done"
    /\ Unwrap(film_slug) = [url |-> <<"/", "film", "/", "film", "/">>,
                            slug |-> Some(<<"film">>)]
    /\ <<"film">> \in DOMAIN movies
    /\ <<"film">> \in SlugsOf(Unwrap(search).results.films)
    /\ <<"film">> \in SlugsOf(Unwrap(list_ret).val.films)
    /\ <<"film">> \in SlugsOf(entries)

\* C25: the count of a page that scrape_movies compares with the full-page
\* size is the number of the page's fragments that were extracted: each of
\* them counts once, also when two of them carry the same slug.
C25_CountsEveryFragment ==
    [][ Extracting =>
          new_count' = Cardinality({ i \in DOMAIN frags : Carried(url, frags[i]) }) ]_vars

(***************************************************************************)
(* Properties of the positions of a list.                                   *)
(***************************************************************************)
\* The index, among all fragments, of the j-th fragment that lacks nothing.
NthComplete(j) ==
    CHOOSE i \in DOMAIN frags :
        /\ ListComplete(frags[i])
        /\ Cardinality({ k \in 1..i : ListComplete(frags[k]) }) = j

\* C29: the positions of the films of a parsed list increase strictly in
\* list order, the position of a film is the index, from 1, of its fragment
\* among all fragments of the page, and get_film_by_position(p) returns the
\* one film of position p, or none when no film has it.
C29_Positions ==
    (Extracted /\ list_ret # None) =>
        LET films == Unwrap(list_ret).val.films
        IN  /\ \A j, k \in DOMAIN films :
                  j < k => Unwrap(films[j].position) < Unwrap(films[k].position)
            /\ \A j \in DOMAIN films : films[j].position = Some(NthComplete(j))
            /\ found # None =>
                  LET at == { j \in DOMAIN films :
                                films[j].position = Some(Unwrap(found).position) }
                  IN  IF at = {} THEN Unwrap(found).film = None
                      ELSE /\ Cardinality(at) = 1
                           /\ \A j \in at : Unwrap(found).film = Some(films[j])

\* The second fragment was skipped: the second film has position 3, it is
\* what get_film_by_position(3) returned, and no film has position 2.
C29_Witness ==
    /\ pc = "found_done" /\ list_ret # None /\ Unwrap(list_ret).ok
    /\ Len(frags) >= 3 /\ Len(Unwrap(list_ret).val.films) >= 2
    /\ Unwrap(found).position = 3 /\ Unwrap(found).film # None
    /\ ~ListComplete(frags[2])
    /\ Unwrap(list_ret).val.films[2].position = Some(3)
    /\ Unwrap(found).film = Some(Unwrap(list_ret).val.films[2])

(***************************************************************************)
(* Properties of what a Films run collects.                                 *)
(***************************************************************************)
\* C26: the records of a fetched page are merged before the stop conditions
\* are looked at: while Films::new runs and when it has returned Ok, the
\* slugs of the collection are those of every page fetched, the last one
\* included, and the count of the returned Films is the number of its entries.
C26_EveryFetchedPageMerged ==
    /\ (FilmsRunning \/ films_ret = Some(Ok(None))) => DOMAIN movies = served
    /\ films_ret = Some(Ok(None)) => count = Cardinality(served)

\* The run ended on a short second page, whose 15 films are in the collection.
C26_Witness ==
    /\ pc = "films_done" /\ films_ret = Some(Ok(None))
    /\ Len(merged) = 2 /\ new_count = 15
    /\ count = HORIZONTAL_MAX + 15 /\ Cardinality(served) = count

\* C27: Films::new on a URL that contains neither "/films/" nor "/film/"
\* makes exactly one fetch and, when that fetch succeeds, returns Ok with an
\* empty collection and count 0.
C27_NoLayoutNoFilms ==
    ((FilmsRunning \/ FilmsEnded) /\ ~Contains(url, "films") /\ ~Contains(url, "film")) =>
        /\ Len(requests) <= 1
        /\ movies = EmptyMap
        /\ (FilmsRunning /\ fetch_result = Some(Ok(None))) => FALSE
        /\ pc = "films_done" =>
              /\ Len(requests) = 1 /\ films_ret = Some(Ok(None)) /\ count = 0

\* The run on the watchlist URL: one fetch, Ok, nothing collected.
C27_Witness ==
    /\ pc = "films_done" /\ url.segs = <<"u", "watchlist">>
    /\ Len(requests) = 1 /\ films_ret = Some(Ok(None)) /\ count = 0

(***************************************************************************)
(* Properties of the text utilities.                                        *)
(***************************************************************************)
\* C28: User::new accepts the names is_valid_username accepts: the profile
\* page is requested only for a name that is not empty, has at most 50
\* characters and consists of letters, digits and underscores, and the name
\* of an InvalidUsername error is one that is_valid_username refuses.
C28_NewAgreesWithValidator ==
    /\ pc = "user_await" => is_valid_username(Pending.segs[2])
    /\ Rejected(user_ret, "InvalidUsername")
          => ~is_valid_username(Unwrap(user_ret).err.username)

\* A decimal number: digits with at most one "." among them.
IsDecimalText(s) ==
    /\ Remove(s, ".") # <<>> /\ IsDigits(Remove(s, "."))
    /\ Cardinality({ i \in DOMAIN s : s[i] = "." }) <= 1

\* The number of digits after the "." of a decimal number.
FractionDigits(s) ==
    IF \E i \in DOMAIN s : s[i] = "." THEN Len(s) - (CHOOSE i \in DOMAIN s : s[i] = ".")
    ELSE 0

\* The decimal number s times by, as a whole number, where TLC can compute it.
Fits(s, by) == Decimal(Remove(s, ".")) <= 2147483647 \div by
ScaledExactly(s, by) == (Decimal(Remove(s, ".")) * by) \div Pow(10, FractionDigits(s))

\* C21: extract_and_convert_shorthand gives, of the text without its commas
\* and surrounding whitespace: the number times 1000 for a decimal number with
\* the suffix K, the number times 1,000,000 for a decimal number with the
\* suffix M, the number itself for a plain unsigned integer, and 0 for every
\* other text.
C21_ShorthandValue ==
    shorthand # None =>
        LET cleaned == Remove(Trim(text), ",")
            suffix == IF cleaned = <<>> THEN "" ELSE cleaned[Len(cleaned)]
            body == SubSeq(cleaned, 1, Len(cleaned) - 1)
            value == Unwrap(shorthand)
        IN  IF suffix = "K" /\ IsDecimalText(body)
            THEN Fits(body, 1000) => value = ScaledExactly(body, 1000)
            ELSE IF suffix = "M" /\ IsDecimalText(body)
            THEN Fits(body, 1000000) => value = ScaledExactly(body, 1000000)
            ELSE IF cleaned # <<>> /\ IsDigits(cleaned) THEN value = Decimal(cleaned)
            ELSE value = 0

\* C23: parse_written_date returns a Parse error unless the text is exactly
\* three whitespace-separated words, a day number, a month abbreviation of
\* Jan..Dec in any letter case and a year number; for such a text it returns
\* the year, the month as the index 1..12 of the abbreviation, and the day,
\* which is in 1..31.
C23_WrittenDate ==
    written_date # None =>
        LET words == SplitWhitespace(text)
            shaped ==
                /\ Len(words) = DATE_WORDS
                /\ words[1] # <<>> /\ IsDigits(words[1])
                /\ \E i \in DOMAIN MONTH_ABBREVIATIONS :
                      EqIgnoreAsciiCase(MONTH_ABBREVIATIONS[i], words[2])
                /\ \/ words[3] # <<>> /\ IsDigits(words[3])
                   \/ /\ Len(words[3]) > 1 /\ Head(words[3]) = "-"
                      /\ IsDigits(Tail(words[3]))
            ret == Unwrap(written_date)
        IN  IF ~shaped THEN ~ret.ok /\ ret.err.kind = "Parse"
            ELSE /\ ret.ok
                 /\ ret.val.month \in 1..12
                 /\ EqIgnoreAsciiCase(MONTH_ABBREVIATIONS[ret.val.month], words[2])
                 /\ ret.val.day = Decimal(words[1])
                 /\ ret.val.day \in 1..31

NoStrayDash(out) ==
    /\ out # <<>> => (out[1] # "-" /\ out[Len(out)] # "-")
    /\ \A i \in 1..(Len(out) - 1) : ~(out[i] = "-" /\ out[i + 1] = "-")

\* C24: sanitize_for_url gives a text of dashes and of alphanumeric
\* characters that to_lowercase leaves as they are, without a dash at either
\* end and without two dashes in a row; for a text of ASCII characters the
\* alphanumeric ones are lowercase letters and digits; and sanitize_for_url
\* of the result is the result.
C24_Sanitized ==
    sanitized # None =>
        LET out == Unwrap(sanitized)
        IN  /\ \A i \in DOMAIN out :
                  \/ out[i] = "-"
                  \/ is_alphanumeric(out[i]) /\ ToLowercase(<<out[i]>>) = <<out[i]>>
            /\ (\A i \in DOMAIN text : text[i] # BOLD_CAPITAL_A)
                  => \A i \in DOMAIN out : out[i] \in Range(LOWER) \cup Range(DIGITS) \cup {"-"}
            /\ NoStrayDash(out)
            /\ resanitized # None => Unwrap(resanitized) = out

\* "A: b" gave "a-b", and "a-b" gave "a-b" again.
C24_Witness ==
    /\ pc = "s_twice" /\ text = <<"A", ":", " ", "b">>
    /\ sanitized = Some(<<"a", "-", "b">>) /\ resanitized = sanitized

\* C24 as the specification has it: every character of the result is a dash
\* or a lowercase alphanumeric character, whatever the input.
C24_OnlyLowercase ==
    sanitized # None =>
        /\ \A i \in DOMAIN Unwrap(sanitized) :
              \/ Unwrap(sanitized)[i] = "-"
              \/ /\ is_alphanumeric(Unwrap(sanitized)[i])
                 /\ ~is_uppercase(Unwrap(sanitized)[i])
        /\ NoStrayDash(Unwrap(sanitized))
        /\ resanitized # None => resanitized = sanitized

\* C30: List::parse_count_text, with 0 for None, gives for every count text
\* the number extract_and_convert_shorthand gives for it.
C30_SameAsShorthand ==
    count_text # None => UnwrapOr(Unwrap(count_text), 0) = Unwrap(shorthand)

=============================================================================
